---------------------------- MODULE Spec2Model ----------------------------
(***************************************************************************)
(* Log-processing engine of gh-actions-mcp (package github): corpus        *)
(* assembly, line filtering with context, section extraction and line      *)
(* windowing.                                                              *)
(*                                                                         *)
(* Text representation.  A Go string is modelled as a sequence of atoms.  *)
(* Each atom stands for one fixed, non-empty piece of text:                *)
(*     NL  "\n"          HP  "=== "        HS  " ==="                      *)
(*     G1  "##[group]"   E1  "##[endgroup]"                                *)
(*     G2  "::group::"   E2  "::endgroup::"                                *)
(*     "x" "X" "k" "B" "D" "a" "b"   one letter each                       *)
(* No atom's text occurs inside, or across the boundary of, other atoms,   *)
(* so strings.Contains / HasSuffix / regexp search on the Go strings are   *)
(* exactly the corresponding searches on atom sequences.                   *)
(***************************************************************************)
EXTENDS Integers, Sequences, FiniteSets, TLC

VARIABLES
    logs,        \* the log text handed to parseLogLines / extractSection
    archive,     \* the ZIP archive's entries, in archive order
    regexCache,  \* regexCache: the patterns with a compiled entry
    req,         \* the call in progress / last made: operation and arguments
    ret,         \* what the call returned, with the locals it computed
    zipCall,     \* readZipArchive in progress: position, locals, temp file
    waitCall,    \* a Wait* call in progress: position, arguments, locals
    world,       \* what the wait loops observe: clock, context, GitHub state
    goroutines,  \* concurrent getCachedRegex calls: position and locals of each
    regexCacheMutex  \* regexCacheMutex: the readers and the writer holding it

vars == <<logs, archive, regexCache, req, ret, zipCall,
          waitCall, world, goroutines, regexCacheMutex>>

\* no wait call, nothing observed, no concurrent caller, lock free
NoWaitCall == [pc |-> "idle"]
NoWorld == [clock |-> 0]
Unlocked == [readers |-> {}, writer |-> 0, pending |-> {}]
Quiescent ==
    /\ waitCall = NoWaitCall
    /\ world = NoWorld
    /\ goroutines = <<>>
    /\ regexCacheMutex = Unlocked

--------------------------------------------------------------------------
(* Atoms *)

NL == "\n"
HP == "=== "
HS == " ==="
G1 == "##[group]"
E1 == "##[endgroup]"
G2 == "::group::"
E2 == "::endgroup::"
\* stands for the text "[", which is no valid regular expression
BadRe == "["

--------------------------------------------------------------------------
(* Bounds *)

MaxLines == 5
MaxContext == 2
MaxSectionLines == 5
MaxDataLines == 1
MaxCount == 3
MaxOffset == 2

--------------------------------------------------------------------------
(* strings package *)

Min(a, b) == IF a < b THEN a ELSE b

\* sectionDepth left as it is, below zero or not
NoClamp(a) == a

\* if sectionDepth < 0 { sectionDepth = 0 }
Max0(a) == IF a < 0 THEN 0 ELSE a

\* unicode.ToLower on one atom
LowerAtom(c) == IF c = "X" THEN "x" ELSE c

ToLower(s) == [i \in 1..Len(s) |-> LowerAtom(s[i])]

\* strings.Contains(s, sub)
Contains(s, sub) ==
    \E i \in 0..(Len(s) - Len(sub)) :
        \A j \in 1..Len(sub) : s[i + j] = sub[j]

HasSuffix(s, suf) ==
    /\ Len(s) >= Len(suf)
    /\ \A j \in 1..Len(suf) : s[Len(s) - Len(suf) + j] = suf[j]

HasPrefix(s, pre) ==
    /\ Len(s) >= Len(pre)
    /\ \A j \in 1..Len(pre) : s[j] = pre[j]

\* strings.Split(s, "\n"): always at least one line
RECURSIVE SplitFrom(_, _, _)
SplitFrom(s, i, cur) ==
    IF i > Len(s) THEN <<cur>>
    ELSE IF s[i] = NL THEN <<cur>> \o SplitFrom(s, i + 1, <<>>)
    ELSE SplitFrom(s, i + 1, Append(cur, s[i]))

Split(s) == SplitFrom(s, 1, <<>>)

\* strings.Join(lines, "\n")
RECURSIVE Join(_)
Join(lines) ==
    IF Len(lines) = 0 THEN <<>>
    ELSE IF Len(lines) = 1 THEN lines[1]
    ELSE lines[1] \o <<NL>> \o Join(Tail(lines))

\* strings.TrimRight(s, "\n")
RECURSIVE TrimRightNL(_)
TrimRightNL(s) ==
    IF Len(s) > 0 /\ s[Len(s)] = NL THEN TrimRightNL(SubSeq(s, 1, Len(s) - 1))
    ELSE s

--------------------------------------------------------------------------
(* regexp *)

\* regexp.Compile succeeds: the modelled patterns are literals, and the
\* text "[" opens a character class that is never closed
ValidRegex(pattern) == \A i \in 1..Len(pattern) : pattern[i] # BadRe

\* (*Regexp).MatchString for a literal pattern: unanchored, case-sensitive
MatchString(pattern, s) == Contains(s, pattern)

\* headerPattern = `^=== .+ ===$`
IsHeaderLine(raw) ==
    /\ Len(raw) >= 3
    /\ raw[1] = HP
    /\ raw[Len(raw)] = HS

\* getCachedRegex storing the pattern whether or not it compiled
CacheAfterStoresFailed(cache, pattern) == cache \cup {pattern}

\* getCachedRegex(pattern): the cache after the call
CacheAfter(cache, pattern) ==
    IF pattern \in cache THEN cache
    ELSE IF ValidRegex(pattern) THEN cache \cup {pattern}
    ELSE cache

--------------------------------------------------------------------------
(* parseLogLines *)

RECURSIVE ParseFrom(_, _, _)
ParseFrom(rawLines, i, currentFileSection) ==
    IF i > Len(rawLines) THEN <<>>
    ELSE LET raw == rawLines[i]
             isHeader == IsHeaderLine(raw)
             cfs == IF isHeader THEN raw ELSE currentFileSection
         IN <<[content |-> raw, isHeader |-> isHeader, fileSection |-> cfs]>>
            \o ParseFrom(rawLines, i + 1, cfs)

parseLogLines(logStr) == ParseFrom(Split(logStr), 1, <<>>)

--------------------------------------------------------------------------
(* filterLogLines *)

\* the matcher closure built from the options (regex wins when both are set)
Matcher(opts, s) ==
    IF opts.FilterRegex # <<>> THEN MatchString(opts.FilterRegex, s)
    ELSE Contains(ToLower(s), ToLower(opts.Filter))

\* the first pass without the isHeader test
MatchedIndicesWithHeaders(lines, opts) ==
    {i \in 1..Len(lines) : Matcher(opts, lines[i].content)}

\* first pass
MatchedIndices(lines, opts) ==
    {i \in 1..Len(lines) : ~lines[i].isHeader /\ Matcher(opts, lines[i].content)}

\* second pass, context before one match
ContextBefore(lines, matchIdx, n) ==
    {i \in (matchIdx - n)..(matchIdx - 1) :
        /\ i >= 1
        /\ ~lines[i].isHeader
        /\ lines[i].fileSection = lines[matchIdx].fileSection}

\* ContextAfter without the break at a file boundary
ContextAfterNoBreak(lines, matchIdx, n) ==
    (matchIdx + 1)..Min(matchIdx + n, Len(lines))

\* second pass, context after one match: the loop breaks at a file boundary
ContextAfter(lines, matchIdx, n) ==
    {i \in (matchIdx + 1)..Min(matchIdx + n, Len(lines)) :
        \A j \in (matchIdx + 1)..i :
            /\ ~lines[j].isHeader
            /\ lines[j].fileSection = lines[matchIdx].fileSection}

IncludedIndices(lines, opts) ==
    UNION {ContextBefore(lines, m, opts.ContextLines) \cup {m}
              \cup ContextAfter(lines, m, opts.ContextLines) :
           m \in MatchedIndices(lines, opts)}

\* third pass: the header found by the backward search from i, if any
HeaderFor(lines, i) ==
    LET js == {j \in 1..i : lines[j].isHeader
                             /\ lines[j].content = lines[i].fileSection}
    IN IF js = {} THEN <<>>
       ELSE <<lines[CHOOSE j \in js : \A k \in js : k <= j]>>

\* the third pass without lastFileSection: a header before every line
RECURSIVE RebuildHeaderEveryLine(_, _, _, _)
RebuildHeaderEveryLine(lines, included, i, lastFileSection) ==
    IF i > Len(lines) THEN <<>>
    ELSE IF i \notin included
         THEN RebuildHeaderEveryLine(lines, included, i + 1, lastFileSection)
    ELSE IF lines[i].fileSection # <<>>
         THEN HeaderFor(lines, i) \o <<lines[i]>>
              \o RebuildHeaderEveryLine(lines, included, i + 1, lastFileSection)
         ELSE <<lines[i]>>
              \o RebuildHeaderEveryLine(lines, included, i + 1, lastFileSection)

RECURSIVE Rebuild(_, _, _, _)
Rebuild(lines, included, i, lastFileSection) ==
    IF i > Len(lines) THEN <<>>
    ELSE IF i \notin included THEN Rebuild(lines, included, i + 1, lastFileSection)
    ELSE IF lines[i].fileSection # lastFileSection /\ lines[i].fileSection # <<>>
         THEN HeaderFor(lines, i) \o <<lines[i]>>
              \o Rebuild(lines, included, i + 1, lines[i].fileSection)
         ELSE <<lines[i]>> \o Rebuild(lines, included, i + 1, lastFileSection)

NoErr == [kind |-> "none", pattern |-> <<>>]

\* the result: lines, the nil sentinel (isNil) and the error
filterLogLines(lines, opts) ==
    IF opts.Filter = <<>> /\ opts.FilterRegex = <<>>
    THEN [lines |-> lines, isNil |-> FALSE, err |-> NoErr]
    ELSE IF opts.FilterRegex # <<>> /\ ~ValidRegex(opts.FilterRegex)
    THEN [lines |-> <<>>, isNil |-> TRUE,
          err |-> [kind |-> "invalid regex pattern", pattern |-> opts.FilterRegex]]
    ELSE IF MatchedIndices(lines, opts) = {}
    THEN [lines |-> <<>>, isNil |-> TRUE, err |-> NoErr]
    ELSE [lines |-> Rebuild(lines, IncludedIndices(lines, opts), 1, <<>>),
          isNil |-> FALSE, err |-> NoErr]

\* linesToString writing "\n" after every line, the last one included
linesToStringNewlineEach(lines) ==
    Join([i \in 1..Len(lines) |-> lines[i].content])
    \o (IF Len(lines) = 0 THEN <<>> ELSE <<NL>>)

\* linesToString
linesToString(lines) == Join([i \in 1..Len(lines) |-> lines[i].content])

--------------------------------------------------------------------------
(* extractSection *)

IsGroupStart(line) == Contains(line, <<G1>>) \/ Contains(line, <<G2>>)

\* IsGroupEnd knowing the ##[endgroup] spelling only
IsGroupEndHashOnly(line) == Contains(line, <<E1>>)

IsGroupEnd(line) == Contains(line, <<E1>>) \/ Contains(line, <<E2>>)

\* the scan with the pattern tried on every line, marker or not
RECURSIVE ExtractFromAnyLine(_, _, _, _, _)
ExtractFromAnyLine(lines, i, inSection, sectionDepth, pattern) ==
    IF i > Len(lines) THEN <<>>
    ELSE LET line == lines[i]
         IN IF ~inSection /\ MatchString(pattern, line)
            THEN <<line>> \o ExtractFromAnyLine(lines, i + 1, TRUE,
                                                sectionDepth + 1, pattern)
            ELSE IF IsGroupStart(line)
            THEN ExtractFromAnyLine(lines, i + 1, inSection,
                                    sectionDepth + 1, pattern)
            ELSE IF IsGroupEnd(line)
            THEN IF inSection
                 THEN <<line>> \o ExtractFromAnyLine(lines, i + 1,
                                     sectionDepth - 1 # 0, sectionDepth - 1, pattern)
                 ELSE ExtractFromAnyLine(lines, i + 1, FALSE,
                                         Max0(sectionDepth - 1), pattern)
            ELSE IF inSection
            THEN <<line>> \o ExtractFromAnyLine(lines, i + 1, inSection,
                                                sectionDepth, pattern)
            ELSE ExtractFromAnyLine(lines, i + 1, inSection, sectionDepth, pattern)

\* the scan with a capture that, once begun, is never ended by a closer
RECURSIVE ExtractFromNeverLeaves(_, _, _, _, _)
ExtractFromNeverLeaves(lines, i, inSection, sectionDepth, pattern) ==
    IF i > Len(lines) THEN <<>>
    ELSE LET line == lines[i]
         IN IF IsGroupStart(line)
            THEN IF ~inSection /\ MatchString(pattern, line)
                 THEN <<line>> \o ExtractFromNeverLeaves(lines, i + 1, TRUE,
                                              sectionDepth + 1, pattern)
                 ELSE ExtractFromNeverLeaves(lines, i + 1, inSection,
                                  sectionDepth + 1, pattern)
            ELSE IF IsGroupEnd(line)
            THEN IF inSection
                 THEN <<line>> \o ExtractFromNeverLeaves(lines, i + 1,
                                     TRUE, sectionDepth - 1, pattern)
                 ELSE ExtractFromNeverLeaves(lines, i + 1, FALSE,
                                  Max0(sectionDepth - 1), pattern)
            ELSE IF inSection
            THEN <<line>> \o ExtractFromNeverLeaves(lines, i + 1, inSection,
                                         sectionDepth, pattern)
            ELSE ExtractFromNeverLeaves(lines, i + 1, inSection, sectionDepth,
                                        pattern)

\* the scan loop: the lines appended to result from line i on
RECURSIVE ExtractFrom(_, _, _, _, _)
ExtractFrom(lines, i, inSection, sectionDepth, pattern) ==
    IF i > Len(lines) THEN <<>>
    ELSE LET line == lines[i]
         IN IF IsGroupStart(line)
            THEN IF ~inSection /\ MatchString(pattern, line)
                 THEN <<line>> \o ExtractFrom(lines, i + 1, TRUE,
                                              sectionDepth + 1, pattern)
                 ELSE ExtractFrom(lines, i + 1, inSection,
                                  sectionDepth + 1, pattern)
            ELSE IF IsGroupEnd(line)
            THEN IF inSection
                 THEN <<line>> \o ExtractFrom(lines, i + 1,
                                     sectionDepth - 1 # 0, sectionDepth - 1, pattern)
                 ELSE ExtractFrom(lines, i + 1, FALSE,
                                  Max0(sectionDepth - 1), pattern)
            ELSE IF inSection
            THEN <<line>> \o ExtractFrom(lines, i + 1, inSection,
                                         sectionDepth, pattern)
            ELSE ExtractFrom(lines, i + 1, inSection, sectionDepth, pattern)

\* extractSection with the empty pattern compiled and scanned like any other
extractSectionNoShortcut(logStr, sectionPattern) ==
    LET result == ExtractFrom(Split(logStr), 1, FALSE, 0, sectionPattern)
    IN IF Len(result) = 0
       THEN [text |-> <<>>,
             err |-> [kind |-> "section not found", pattern |-> sectionPattern]]
       ELSE [text |-> Join(result), err |-> NoErr]

\* the returned text and error
extractSection(logStr, sectionPattern) ==
    IF sectionPattern = <<>> THEN [text |-> logStr, err |-> NoErr]
    ELSE IF ~ValidRegex(sectionPattern)
    THEN [text |-> <<>>,
          err |-> [kind |-> "invalid section pattern", pattern |-> sectionPattern]]
    ELSE LET result == ExtractFrom(Split(logStr), 1, FALSE, 0, sectionPattern)
         IN IF Len(result) = 0
            THEN [text |-> <<>>,
                  err |-> [kind |-> "section not found", pattern |-> sectionPattern]]
            ELSE [text |-> Join(result), err |-> NoErr]

--------------------------------------------------------------------------
(* Archive reading and corpus assembly *)

\* byte order of the letters used in file names
LetterRank(c) == IF c = "a" THEN 1 ELSE IF c = "b" THEN 2 ELSE 3

\* logFiles[i].name < logFiles[j].name
RECURSIVE NameLess(_, _)
NameLess(n1, n2) ==
    IF Len(n2) = 0 THEN FALSE
    ELSE IF Len(n1) = 0 THEN TRUE
    ELSE IF n1[1] # n2[1] THEN LetterRank(n1[1]) < LetterRank(n2[1])
    ELSE NameLess(Tail(n1), Tail(n2))

\* sort.Slice by name; for the fewer than 12 entries modelled it is an
\* insertion sort, which keeps entries of one name in archive order
RECURSIVE InsertByName(_, _)
InsertByName(sorted, f) ==
    IF Len(sorted) = 0 THEN <<f>>
    ELSE IF NameLess(f.name, sorted[1].name) THEN <<f>> \o sorted
    ELSE <<sorted[1]>> \o InsertByName(Tail(sorted), f)

RECURSIVE SortByName(_)
SortByName(files) ==
    IF Len(files) = 0 THEN <<>>
    ELSE InsertByName(SortByName(SubSeq(files, 1, Len(files) - 1)), files[Len(files)])

\* filepath.Match for a pattern without wildcards
FileMatch(filePattern, name) == filePattern = name

\* the file pattern filter of GetWorkflowLogsWithPattern
RECURSIVE SelectFiles(_, _)
SelectFiles(files, filePattern) ==
    IF filePattern = <<>> \/ Len(files) = 0 THEN files
    ELSE (IF FileMatch(filePattern, files[1].name) THEN <<files[1]>> ELSE <<>>)
         \o SelectFiles(Tail(files), filePattern)

\* the allLogs builder: header, data, and a newline when data lacks one
RECURSIVE Assemble(_, _)
Assemble(files, noHeaders) ==
    IF Len(files) = 0 THEN <<>>
    ELSE (IF noHeaders THEN <<>> ELSE <<HP>> \o files[1].name \o <<HS, NL>>)
         \o files[1].data
         \o (IF HasSuffix(files[1].data, <<NL>>) THEN <<>> ELSE <<NL>>)
         \o Assemble(Tail(files), noHeaders)

--------------------------------------------------------------------------
(* Line limiting: offset, then tail or head *)

\* the offset step without the offset < len(lines) guard
ApplyOffsetUnguarded(lines, offset) ==
    SubSeq(lines, Min(offset, Len(lines)) + 1, Len(lines))

\* if offset > 0 && offset < len(lines) { lines = lines[offset:] }
ApplyOffset(lines, offset) ==
    IF offset > 0 /\ offset < Len(lines)
    THEN SubSeq(lines, offset + 1, Len(lines))
    ELSE lines

\* head applied before tail is looked at
ApplyHeadFirst(lines, head, tail) ==
    IF head > 0
    THEN (IF Len(lines) > head THEN SubSeq(lines, 1, head) ELSE lines)
    ELSE IF tail > 0
    THEN (IF Len(lines) > tail
          THEN SubSeq(lines, Len(lines) - tail + 1, Len(lines)) ELSE lines)
    ELSE lines

ApplyHeadTail(lines, head, tail) ==
    IF tail > 0
    THEN (IF Len(lines) > tail
          THEN SubSeq(lines, Len(lines) - tail + 1, Len(lines)) ELSE lines)
    ELSE IF head > 0
    THEN (IF Len(lines) > head THEN SubSeq(lines, 1, head) ELSE lines)
    ELSE lines

\* the line limiting block: offset, then tail or head
Window(lines, offset, head, tail) ==
    ApplyHeadTail(ApplyOffset(lines, offset), head, tail)

\* strings.Join(lines, "\n"), plus "\n" unless that is the empty string
Render(lines) ==
    LET logStr == Join(lines)
    IN IF logStr # <<>> THEN logStr \o <<NL>> ELSE logStr

FilterSet(opts) == opts.Filter # <<>> \/ opts.FilterRegex # <<>>

\* a return before the line limiting step
EarlyReturn(err) ==
    [text |-> <<>>, err |-> err, limited |-> FALSE,
     lines |-> <<>>, afterOffset |-> <<>>, final |-> <<>>]

\* everything after the archive is read and sorted, shared word for word by
\* GetWorkflowLogsWithPattern and GetWorkflowJobLogs
LogsFromFiles(logFiles, head, tail, offset, noHeaders, filterOpts) ==
    LET logStr == TrimRightNL(Assemble(logFiles, noHeaders))
        filtered == filterLogLines(parseLogLines(logStr), filterOpts)
    IN IF FilterSet(filterOpts) /\ filtered.err # NoErr THEN EarlyReturn(filtered.err)
       ELSE IF FilterSet(filterOpts) /\ filtered.isNil THEN EarlyReturn(NoErr)
       ELSE LET lines == Split(IF FilterSet(filterOpts)
                               THEN linesToString(filtered.lines) ELSE logStr)
                afterOffset == ApplyOffset(lines, offset)
                final == ApplyHeadTail(afterOffset, head, tail)
            IN [text |-> Render(final), err |-> NoErr, limited |-> TRUE,
                lines |-> lines, afterOffset |-> afterOffset, final |-> final]

\* the entries in archive order, not sorted
readZipArchiveUnsorted(zip) == zip

\* readZipArchive on a well-formed archive of small files: the entries, sorted
readZipArchive(zip) == SortByName(zip)

GetWorkflowLogsWithPattern(zip, head, tail, offset, noHeaders, filePattern, filterOpts) ==
    LogsFromFiles(SelectFiles(readZipArchive(zip), filePattern),
                  head, tail, offset, noHeaders, filterOpts)

GetWorkflowLogs(zip, head, tail, offset, noHeaders, filterOpts) ==
    GetWorkflowLogsWithPattern(zip, head, tail, offset, noHeaders, <<>>, filterOpts)

GetWorkflowJobLogs(zip, head, tail, offset, noHeaders, filterOpts) ==
    LogsFromFiles(SortByName(zip), head, tail, offset, noHeaders, filterOpts)

NoFilter == [Filter |-> <<>>, FilterRegex |-> <<>>, ContextLines |-> 0]

GetLogSection(zip, byJob, sectionPattern, filterOpts) ==
    LET fetched == IF byJob THEN GetWorkflowJobLogs(zip, 0, 0, 0, FALSE, NoFilter)
                   ELSE GetWorkflowLogs(zip, 0, 0, 0, FALSE, NoFilter)
        section == extractSection(fetched.text, sectionPattern)
        filtered == filterLogLines(parseLogLines(section.text), filterOpts)
    IN IF fetched.err # NoErr THEN EarlyReturn(fetched.err)
       ELSE IF section.err # NoErr THEN EarlyReturn(section.err)
       ELSE IF ~FilterSet(filterOpts)
       THEN [EarlyReturn(NoErr) EXCEPT !.text = section.text]
       ELSE IF filtered.err # NoErr THEN EarlyReturn(filtered.err)
       ELSE IF filtered.isNil THEN EarlyReturn(NoErr)
       ELSE [EarlyReturn(NoErr) EXCEPT !.text = linesToString(filtered.lines)]

--------------------------------------------------------------------------
(* Inputs *)

\* every sequence of at most n elements of S
SeqsUpTo(S, n) == UNION {[1..k -> S] : k \in 0..n}

\* the two file headers of the filter corpora; the second one's file name
\* contains the search text
HdrA == <<HP, "a", HS>>
HdrX == <<HP, "x", HS>>

FilterLineSet == {HdrA, HdrX, <<"x">>, <<"k">>}

FilterTexts == {Join(ls) : ls \in SeqsUpTo(FilterLineSet, MaxLines)}

FilterOptsSet ==
    [Filter : {<<>>, <<"x">>, <<"X">>},
     FilterRegex : {<<>>, <<"x">>, <<BadRe>>},
     ContextLines : 0..MaxContext]

NoCall == [op |-> "none"]

\* no readZipArchive call has been made
NoZipCall == [pc |-> "idle"]

--------------------------------------------------------------------------
(* Filtering a log text: parseLogLines, then filterLogLines *)

InitFilter ==
    /\ logs \in FilterTexts
    /\ archive = <<>>
    /\ regexCache = {}
    /\ req = NoCall
    /\ ret = NoCall
    /\ zipCall = NoZipCall
    /\ Quiescent

FilterCall ==
    \E opts \in FilterOptsSet :
        LET parsedLines == parseLogLines(logs)
        IN /\ req = NoCall
           /\ req' = [op |-> "filterLogLines", opts |-> opts]
           /\ ret' = [op |-> "filterLogLines",
                      parsed |-> parsedLines,
                      res |-> filterLogLines(parsedLines, opts)]
           /\ regexCache' = IF opts.FilterRegex # <<>>
                            THEN CacheAfter(regexCache, opts.FilterRegex)
                            ELSE regexCache
           /\ UNCHANGED <<logs, archive, zipCall,
                     waitCall, world, goroutines, regexCacheMutex>>

NextFilter == FilterCall

SpecFilter == InitFilter /\ [][NextFilter]_vars

--------------------------------------------------------------------------
(* Extracting a section from a log text: extractSection *)

\* group lines in the ##[group] vocabulary, a plain line, a plain line that
\* holds a section name, and a closing marker followed by a section name
SectionLineSet ==
    {<<G1, "B">>, <<G1, "D">>, <<E1>>, <<"k">>, <<"B">>, <<E1, "B">>}

SectionTexts == {Join(ls) : ls \in SeqsUpTo(SectionLineSet, MaxSectionLines)}

SectionPatterns == {<<>>, <<"B">>, <<"D">>, <<"k">>, <<BadRe>>}

\* the same groups written in both vocabularies
VocabLineSet ==
    {<<G1, "B">>, <<G2, "B">>, <<G1, "D">>, <<G2, "D">>, <<E1>>, <<E2>>, <<"k">>}

VocabTexts == {Join(ls) : ls \in SeqsUpTo(VocabLineSet, MaxSectionLines)}

VocabPatterns == {<<"B">>, <<"D">>}

InitSection ==
    /\ logs \in SectionTexts
    /\ archive = <<>>
    /\ regexCache = {}
    /\ req = NoCall
    /\ ret = NoCall
    /\ zipCall = NoZipCall
    /\ Quiescent

InitVocab ==
    /\ logs \in VocabTexts
    /\ archive = <<>>
    /\ regexCache = {}
    /\ req = NoCall
    /\ ret = NoCall
    /\ zipCall = NoZipCall
    /\ Quiescent

ExtractCall(patterns) ==
    \E sectionPattern \in patterns :
        /\ req = NoCall
        /\ req' = [op |-> "extractSection", pattern |-> sectionPattern]
        /\ ret' = [op |-> "extractSection",
                   res |-> extractSection(logs, sectionPattern)]
        /\ regexCache' = IF sectionPattern # <<>>
                         THEN CacheAfter(regexCache, sectionPattern)
                         ELSE regexCache
        /\ UNCHANGED <<logs, archive, zipCall,
                     waitCall, world, goroutines, regexCacheMutex>>

NextSection == ExtractCall(SectionPatterns)

SpecSection == InitSection /\ [][NextSection]_vars

NextVocab == ExtractCall(VocabPatterns)

SpecVocab == InitVocab /\ [][NextVocab]_vars

--------------------------------------------------------------------------
(* The log pipeline: archive, corpus, filter or section, line limiting *)

FileNames == {<<"a">>, <<"b">>}

\* the content of one group, as a log file
GroupData == <<G1, "B", NL, "x", NL, E1, NL>>

\* file contents: lines "x", with and without a trailing newline (so also
\* the empty file and the file that is one empty line), and one file
\* holding a group
DataTexts ==
    {Join(ls) \o t : ls \in SeqsUpTo({<<"x">>}, MaxDataLines), t \in {<<>>, <<NL>>}}
    \cup {GroupData}

\* archives of files with distinct names, in any archive order
Archives ==
    {<<>>}
    \cup {<<[name |-> n, data |-> d]>> : n \in FileNames, d \in DataTexts}
    \cup {fs \in {<<[name |-> n1, data |-> d1], [name |-> n2, data |-> d2]>> :
                     n1 \in FileNames, n2 \in FileNames,
                     d1 \in DataTexts, d2 \in DataTexts} :
            fs[1].name # fs[2].name}

PipelineFilters ==
    {NoFilter, [Filter |-> <<"x">>, FilterRegex |-> <<>>, ContextLines |-> 1]}

Init ==
    /\ archive \in Archives
    /\ logs = <<>>
    /\ regexCache = {}
    /\ req = NoCall
    /\ ret = NoCall
    /\ zipCall = NoZipCall
    /\ Quiescent

RunLogsCall ==
    \E head \in 0..MaxCount, tail \in 0..MaxCount, offset \in 0..MaxOffset,
       noHeaders \in BOOLEAN, filePattern \in {<<>>, <<"a">>},
       filterOpts \in PipelineFilters :
        /\ req = NoCall
        /\ req' = [op |-> "GetWorkflowLogsWithPattern", head |-> head, tail |-> tail,
                   offset |-> offset, noHeaders |-> noHeaders,
                   filePattern |-> filePattern, filterOpts |-> filterOpts]
        /\ ret' = GetWorkflowLogsWithPattern(archive, head, tail, offset, noHeaders,
                                             filePattern, filterOpts)
        /\ regexCache' = IF filterOpts.FilterRegex # <<>>
                         THEN CacheAfter(regexCache, filterOpts.FilterRegex)
                         ELSE regexCache
        /\ UNCHANGED <<logs, archive, zipCall,
                     waitCall, world, goroutines, regexCacheMutex>>

JobLogsCall ==
    \E head \in 0..MaxCount, tail \in 0..MaxCount, offset \in 0..MaxOffset,
       noHeaders \in BOOLEAN, filterOpts \in PipelineFilters :
        /\ req = NoCall
        /\ req' = [op |-> "GetWorkflowJobLogs", head |-> head, tail |-> tail,
                   offset |-> offset, noHeaders |-> noHeaders,
                   filterOpts |-> filterOpts]
        /\ ret' = GetWorkflowJobLogs(archive, head, tail, offset, noHeaders, filterOpts)
        /\ regexCache' = IF filterOpts.FilterRegex # <<>>
                         THEN CacheAfter(regexCache, filterOpts.FilterRegex)
                         ELSE regexCache
        /\ UNCHANGED <<logs, archive, zipCall,
                     waitCall, world, goroutines, regexCacheMutex>>

LogSectionCall ==
    \E byJob \in BOOLEAN, sectionPattern \in {<<>>, <<"B">>, <<"D">>},
       filterOpts \in PipelineFilters :
        LET res == GetLogSection(archive, byJob, sectionPattern, filterOpts)
            afterSection == IF sectionPattern # <<>>
                            THEN CacheAfter(regexCache, sectionPattern)
                            ELSE regexCache
        IN /\ req = NoCall
           /\ req' = [op |-> "GetLogSection", byJob |-> byJob,
                      pattern |-> sectionPattern, filterOpts |-> filterOpts]
           /\ ret' = res
           /\ regexCache' =
                 IF res.err.kind # "section not found" /\ filterOpts.FilterRegex # <<>>
                 THEN CacheAfter(afterSection, filterOpts.FilterRegex)
                 ELSE afterSection
           /\ UNCHANGED <<logs, archive, zipCall,
                     waitCall, world, goroutines, regexCacheMutex>>

Next == RunLogsCall \/ JobLogsCall \/ LogSectionCall

Spec == Init /\ [][Next]_vars

--------------------------------------------------------------------------
(* Claims on filterLogLines *)

\* a filterLogLines call with a filter set has returned lines
Filtered ==
    /\ req.op = "filterLogLines"
    /\ req.opts.Filter # <<>> \/ req.opts.FilterRegex # <<>>
    /\ ret.res.err = NoErr
    /\ ~ret.res.isNil

\* the corpus positions of the lines that satisfy the predicate
MatchPositions ==
    {m \in 1..Len(ret.parsed) :
        /\ ~ret.parsed[m].isHeader
        /\ Matcher(req.opts, ret.parsed[m].content)}

Dist(i, m) == IF i < m THEN m - i ELSE i - m

\* C1: every non-header line of the output is a corpus line that lies within
\* contextLines of a matched line carrying the same fileSection tag, and no
\* output line at all (header or not) carries the tag of a file without a
\* matched line: a match on the last line of file A brings in nothing of B.
C1_ContextStaysInFile ==
    Filtered =>
        /\ \A k \in 1..Len(ret.res.lines) :
              ~ret.res.lines[k].isHeader =>
                  \E i \in 1..Len(ret.parsed) : \E m \in MatchPositions :
                      /\ ret.parsed[i] = ret.res.lines[k]
                      /\ Dist(i, m) <= req.opts.ContextLines
                      /\ ret.parsed[i].fileSection = ret.parsed[m].fileSection
        /\ \A k \in 1..Len(ret.res.lines) :
              \E m \in MatchPositions :
                  ret.res.lines[k].fileSection = ret.parsed[m].fileSection

\* the only match is the last line of file A, file B follows with a
\* non-header line inside the context distance, and lines were returned
C1_Witness ==
    /\ Filtered
    /\ req.opts.ContextLines >= 2
    /\ \E m \in 1..Len(ret.parsed) :
          /\ MatchPositions = {m}
          /\ ret.parsed[m].fileSection # <<>>
          /\ m + 2 <= Len(ret.parsed)
          /\ ret.parsed[m + 1].isHeader
          /\ ~ret.parsed[m + 2].isHeader
          /\ ret.parsed[m + 1].content # ret.parsed[m].fileSection

\* C2: in the output, every header is directly followed by a line of its own
\* section and directly preceded by nothing or by a line of another section,
\* and every line of a named section that starts a run has its header
\* directly before it: one header per run, none for a section without lines.
C2_OneHeaderPerRun ==
    Filtered =>
        LET out == ret.res.lines
        IN \A k \in 1..Len(out) :
              /\ out[k].isHeader =>
                    /\ k < Len(out)
                    /\ ~out[k + 1].isHeader
                    /\ out[k + 1].fileSection = out[k].content
                    /\ k > 1 => out[k - 1].fileSection # out[k].content
              /\ (~out[k].isHeader /\ out[k].fileSection # <<>>) =>
                    /\ k > 1
                    /\ out[k - 1].fileSection = out[k].fileSection

\* two sections each contribute lines, the first one two of them in a row
C2_Witness ==
    /\ Filtered
    /\ LET out == ret.res.lines
       IN /\ Len(out) >= 5
          /\ out[1].isHeader
          /\ ~out[2].isHeader /\ ~out[3].isHeader
          /\ out[4].isHeader /\ out[4].content # out[1].content
          /\ ~out[5].isHeader

\* C3: with a filter set and a valid pattern, the result is the nil sentinel
\* exactly when no non-header corpus line satisfies the predicate, and a
\* non-nil result contains every non-header line that does.
C3_NilIffNoMatch ==
    (/\ req.op = "filterLogLines"
     /\ req.opts.Filter # <<>> \/ req.opts.FilterRegex # <<>>
     /\ ret.res.err = NoErr) =>
        /\ ret.res.isNil <=> MatchPositions = {}
        /\ ~ret.res.isNil =>
              \A m \in MatchPositions :
                  \E k \in 1..Len(ret.res.lines) : ret.res.lines[k] = ret.parsed[m]

\* the search text occurs in a header line only, and the result is nil
C3_Witness ==
    /\ req.op = "filterLogLines"
    /\ req.opts.Filter = <<"x">> /\ req.opts.FilterRegex = <<>>
    /\ ret.res.isNil
    /\ ret.res.err = NoErr
    /\ \E i \in 1..Len(ret.parsed) :
          ret.parsed[i].isHeader /\ Matcher(req.opts, ret.parsed[i].content)

--------------------------------------------------------------------------
(* Claims on extractSection *)

Extracted == req.op = "extractSection"

CorpusLines == Split(logs)

\* the opening marker lines the pattern matches
MatchingOpeners ==
    {i \in 1..Len(CorpusLines) :
        IsGroupStart(CorpusLines[i]) /\ MatchString(req.pattern, CorpusLines[i])}

\* nesting depth after line j, counted from just before line a
RECURSIVE DepthFrom(_, _, _)
DepthFrom(lines, a, j) ==
    IF j < a THEN 0
    ELSE DepthFrom(lines, a, j - 1)
         + (IF IsGroupStart(lines[j]) THEN 1
            ELSE IF IsGroupEnd(lines[j]) THEN -1 ELSE 0)

\* line b closes the group that line a opens
Closes(lines, a, b) ==
    /\ a < b /\ b <= Len(lines)
    /\ DepthFrom(lines, a, b) = 0
    /\ \A j \in a..(b - 1) : DepthFrom(lines, a, j) > 0

\* group Outer opens the corpus' first marker line a and is the only line the
\* pattern matches, it closes at b, and between the two lie a nested group
\* and, after that group's end, more content of Outer
NestedScenario(a, b) ==
    /\ MatchingOpeners = {a}
    /\ \A i \in 1..Len(CorpusLines) : MatchString(req.pattern, CorpusLines[i]) => i = a
    /\ \A i \in 1..(a - 1) : ~IsGroupStart(CorpusLines[i]) /\ ~IsGroupEnd(CorpusLines[i])
    /\ Closes(CorpusLines, a, b)
    /\ \E c \in (a + 1)..(b - 1) : \E d \in (c + 1)..(b - 2) :
          /\ IsGroupStart(CorpusLines[c])
          /\ Closes(CorpusLines, c, d)
          /\ \A j \in (d + 1)..(b - 1) :
                ~IsGroupStart(CorpusLines[j]) /\ ~IsGroupEnd(CorpusLines[j])

\* C4: when Outer holds a nested group followed by more outer content and
\* the pattern matches Outer's opening line only, the result is exactly the
\* corpus lines from Outer's opening marker through its closing marker,
\* the nested group's opening line, content and closing line included.
C4_NestedVerbatim ==
    Extracted =>
        \A a \in 1..Len(CorpusLines) : \A b \in 1..Len(CorpusLines) :
            NestedScenario(a, b) =>
                /\ ret.res.err = NoErr
                /\ ret.res.text = Join(SubSeq(CorpusLines, a, b))

\* C8: for a non-empty valid pattern the call fails with the not-found error
\* naming the pattern exactly when no opening marker line matches it; a match
\* on a plain line or on a closing marker line does not count.
C8_NotFoundIffNoOpener ==
    (Extracted /\ req.pattern # <<>> /\ ValidRegex(req.pattern)) =>
        /\ (ret.res.err.kind = "section not found") <=> (MatchingOpeners = {})
        /\ ret.res.err.kind = "section not found" => ret.res.err.pattern = req.pattern
        /\ ret.res.err.kind \in {"section not found", "none"}

\* the pattern matches a plain line and a closing marker line of a corpus
\* that has an opening marker, and the call fails with not found
C8_Witness ==
    /\ Extracted
    /\ ret.res.err.kind = "section not found"
    /\ \E i \in 1..Len(CorpusLines) :
          /\ IsGroupEnd(CorpusLines[i])
          /\ MatchString(req.pattern, CorpusLines[i])
    /\ \E i \in 1..Len(CorpusLines) :
          /\ ~IsGroupEnd(CorpusLines[i]) /\ ~IsGroupStart(CorpusLines[i])
          /\ MatchString(req.pattern, CorpusLines[i])
    /\ \E i \in 1..Len(CorpusLines) : IsGroupStart(CorpusLines[i])

\* C9: with the empty pattern the input text comes back unchanged and
\* without error, whatever markers it holds.
C9_EmptyPatternIdentity ==
    (Extracted /\ req.pattern = <<>>) =>
        /\ ret.res.err = NoErr
        /\ ret.res.text = logs

\* the empty pattern on a corpus whose first marker is a closing one and
\* whose opening marker is never closed
C9_Witness ==
    /\ Extracted
    /\ req.pattern = <<>>
    /\ ret.res.err = NoErr
    /\ \E i \in 1..Len(CorpusLines) : \E j \in (i + 1)..Len(CorpusLines) :
          /\ IsGroupEnd(CorpusLines[i])
          /\ \A h \in 1..(i - 1) : ~IsGroupStart(CorpusLines[h])
          /\ IsGroupStart(CorpusLines[j])
          /\ \A h \in (j + 1)..Len(CorpusLines) : ~IsGroupEnd(CorpusLines[h])

\* every ##[group] / ##[endgroup] marker of a text respelt ::group:: / ::endgroup::
ToColon(text) ==
    [i \in 1..Len(text) |->
        IF text[i] = G1 THEN G2 ELSE IF text[i] = E1 THEN E2 ELSE text[i]]

\* C10: respelling the markers of a corpus (itself written in either or both
\* vocabularies) and extracting the same section name gives the respelt
\* result of extracting from the corpus as written, error or text alike.
C10_VocabularyEquivalence ==
    Extracted =>
        LET other == extractSection(ToColon(logs), req.pattern)
        IN /\ other.err = ret.res.err
           /\ other.text = ToColon(ret.res.text)

\* the corpus' only group, opened by ##[group] and closed by ::endgroup::,
\* was extracted, and the corpus lines outside it were left out
C10_Witness ==
    /\ Extracted
    /\ ret.res.err = NoErr
    /\ Cardinality({i \in 1..Len(CorpusLines) : IsGroupStart(CorpusLines[i])}) = 1
    /\ LET out == Split(ret.res.text)
       IN /\ Len(out) >= 3
          /\ Contains(out[1], <<G1>>)
          /\ Contains(out[Len(out)], <<E2>>)
          /\ Len(out) < Len(CorpusLines)

--------------------------------------------------------------------------
(* Claims on line limiting and on the returned text *)

\* a run-log or job-log call has reached its line limiting step
Limited ==
    /\ req.op \in {"GetWorkflowLogsWithPattern", "GetWorkflowJobLogs"}
    /\ ret.limited

LastN(lines, k) == SubSeq(lines, Len(lines) - k + 1, Len(lines))

\* C5: on the n lines left by the offset step, tail > 0 returns the last
\* min(tail, n) lines whatever head is; tail = 0 and head > 0 returns the
\* first min(head, n) lines; head = tail = 0 returns them unchanged.
C5_TailThenHead ==
    Limited =>
        LET n == Len(ret.afterOffset)
        IN /\ req.tail > 0 => ret.final = LastN(ret.afterOffset, Min(req.tail, n))
           /\ (req.tail = 0 /\ req.head > 0) =>
                 ret.final = SubSeq(ret.afterOffset, 1, Min(req.head, n))
           /\ (req.tail = 0 /\ req.head = 0) => ret.final = ret.afterOffset

\* five lines, head = 2 and tail = 3: the last three lines came back
C5_Witness ==
    /\ Limited
    /\ Len(ret.afterOffset) = 5
    /\ req.head = 2 /\ req.tail = 3
    /\ ret.final = LastN(ret.afterOffset, 3)
    /\ ret.final # SubSeq(ret.afterOffset, 1, 3)

\* C6: an offset > 0 drops exactly min(offset, n) leading lines of the n
\* lines, so an offset of n or more leaves no line (stated for the line
\* sequences of a non-empty text, where the difference shows in the output).
C6_OffsetDropsLeading ==
    (Limited /\ req.offset > 0 /\ Join(ret.lines) # <<>>) =>
        LET n == Len(ret.lines)
        IN ret.afterOffset = SubSeq(ret.lines, Min(req.offset, n) + 1, n)

EndsWithOneNewline(text) ==
    /\ Len(text) >= 1
    /\ text[Len(text)] = NL
    /\ Len(text) >= 2 => text[Len(text) - 1] # NL

\* C7: every text the log pipeline returns without error ends with exactly
\* one newline; nothing to show is returned as the text "\n".
C7_OneTrailingNewline ==
    (/\ req.op \in {"GetWorkflowLogsWithPattern", "GetWorkflowJobLogs", "GetLogSection"}
     /\ ret.err = NoErr) =>
        EndsWithOneNewline(ret.text)

-----------------------------------------------------------------------------
(* extractSections: listing the group openings of a log text *)

\* "\t": a whitespace character, removed by strings.TrimSpace.
TAB == "\t"

MaxListLines == 4

RECURSIVE TrimLeftSpace(_)
TrimLeftSpace(s) ==
    IF s # <<>> /\ Head(s) = TAB THEN TrimLeftSpace(Tail(s)) ELSE s

RECURSIVE TrimRightSpace(_)
TrimRightSpace(s) ==
    IF s # <<>> /\ s[Len(s)] = TAB
    THEN TrimRightSpace(SubSeq(s, 1, Len(s) - 1))
    ELSE s

\* strings.TrimSpace
TrimSpace(s) == TrimRightSpace(TrimLeftSpace(s))

\* strings.TrimPrefix / strings.TrimSuffix
TrimPrefix(s, pre) ==
    IF HasPrefix(s, pre) THEN SubSeq(s, Len(pre) + 1, Len(s)) ELSE s

TrimSuffix(s, suf) ==
    IF HasSuffix(s, suf) THEN SubSeq(s, 1, Len(s) - Len(suf)) ELSE s

\* strings.Index for a one-atom marker; 0 stands for Go's -1.
Index(line, marker) ==
    IF \E i \in 1..Len(line) : line[i] = marker
    THEN CHOOSE i \in 1..Len(line) :
             /\ line[i] = marker
             /\ \A j \in 1..(i - 1) : line[j] # marker
    ELSE 0

extractSectionName(line, marker) ==
    LET idx == Index(line, marker)
    IN  IF idx = 0 THEN <<>>
        ELSE TrimSpace(SubSeq(line, idx + 1, Len(line)))

\* The loop of extractSections that keeps the first header seen as owner.
RECURSIVE SectionsFromFirstOwner(_, _, _)
SectionsFromFirstOwner(lines, i, currentJob) ==
    IF i > Len(lines) THEN <<>>
    ELSE LET line == lines[i]
         IN  IF HasPrefix(line, <<HP>>) /\ HasSuffix(line, <<HS>>)
             THEN SectionsFromFirstOwner(lines, i + 1,
                      IF currentJob = <<>>
                      THEN TrimPrefix(TrimSuffix(line, <<HS>>), <<HP>>)
                      ELSE currentJob)
             ELSE LET sectionName ==
                          IF Contains(line, <<G1>>)
                          THEN extractSectionName(line, G1)
                          ELSE IF Contains(line, <<G2>>)
                               THEN extractSectionName(line, G2)
                               ELSE <<>>
                  IN  (IF sectionName # <<>>
                       THEN <<[Name |-> sectionName, Line |-> i,
                               JobName |-> currentJob]>>
                       ELSE <<>>)
                      \o SectionsFromFirstOwner(lines, i + 1, currentJob)

\* The loop of extractSections; i is the 1-based position, so Line = i.
RECURSIVE SectionsFrom(_, _, _)
SectionsFrom(lines, i, currentJob) ==
    IF i > Len(lines) THEN <<>>
    ELSE LET line == lines[i]
         IN  IF HasPrefix(line, <<HP>>) /\ HasSuffix(line, <<HS>>)
             THEN SectionsFrom(lines, i + 1,
                      TrimPrefix(TrimSuffix(line, <<HS>>), <<HP>>))
             ELSE LET sectionName ==
                          IF Contains(line, <<G1>>)
                          THEN extractSectionName(line, G1)
                          ELSE IF Contains(line, <<G2>>)
                               THEN extractSectionName(line, G2)
                               ELSE <<>>
                  IN  (IF sectionName # <<>>
                       THEN <<[Name |-> sectionName, Line |-> i,
                               JobName |-> currentJob]>>
                       ELSE <<>>)
                      \o SectionsFrom(lines, i + 1, currentJob)

extractSections(logStr) == SectionsFrom(Split(logStr), 1, <<>>)

HdrB == <<HP, "b", HS>>

ListLineSet ==
    {HdrA, HdrB, <<G1, "B">>, <<"k", G2, TAB, "D", TAB>>, <<G1>>,
     <<G2, TAB>>, <<E1>>, <<"k">>}

ListTexts == {Join(ls) : ls \in SeqsUpTo(ListLineSet, MaxListLines)}

InitList ==
    /\ logs \in ListTexts
    /\ archive = <<>>
    /\ regexCache = {}
    /\ req = NoCall
    /\ ret = NoCall
    /\ zipCall = NoZipCall
    /\ Quiescent

ListCall ==
    /\ req = NoCall
    /\ req' = [op |-> "extractSections"]
    /\ ret' = [op |-> "extractSections", sections |-> extractSections(logs)]
    /\ UNCHANGED <<logs, archive, regexCache, zipCall,
                     waitCall, world, goroutines, regexCacheMutex>>

NextList == ListCall

SpecList == InitList /\ [][NextList]_vars

-----------------------------------------------------------------------------
(* Claims on extractSections *)

Listed == req.op = "extractSections"

OpenerPositions == {i \in 1..Len(CorpusLines) : IsGroupStart(CorpusLines[i])}

ListedPositions == {ret.sections[k].Line : k \in 1..Len(ret.sections)}

\* C11: extractSections emits exactly one Section for every corpus line
\* that contains an opening group marker, whatever text follows the marker,
\* and nothing for any other line: the listed line numbers are exactly the
\* positions of the lines extractSection counts as group openings, one
\* Section each.
C11_EveryOpenerListed ==
    Listed =>
        /\ ListedPositions = OpenerPositions
        /\ Len(ret.sections) = Cardinality(OpenerPositions)

\* A `=== <name> ===` line: its name, read off the line itself.
IsOwnerLine(line) == Len(line) >= 2 /\ line[1] = HP /\ line[Len(line)] = HS

OwnerAt(lines, n) ==
    LET above == {j \in 1..(n - 1) : IsOwnerLine(lines[j])}
    IN  IF above = {} THEN <<>>
        ELSE LET j == CHOOSE m \in above : \A o \in above : o <= m
             IN  SubSeq(lines[j], 2, Len(lines[j]) - 1)

\* C12: every Section carries the 1-based index of its line in the corpus,
\* listed line numbers are strictly increasing, and the owning file is the
\* name from the most recent `=== <name> ===` line above it, or empty when no
\* such line precedes it.
C12_LineAndOwner ==
    Listed =>
        /\ \A k \in 1..Len(ret.sections) :
               LET s == ret.sections[k]
               IN  /\ s.Line \in OpenerPositions
                   /\ s.JobName = OwnerAt(CorpusLines, s.Line)
        /\ \A k \in 1..(Len(ret.sections) - 1) :
               ret.sections[k].Line < ret.sections[k + 1].Line

\* A listing with one section above every header (empty owner) and one below
\* two different headers (owner is the nearer one).
C12_Witness ==
    /\ Listed
    /\ Len(ret.sections) = 2
    /\ ret.sections[1].JobName = <<>>
    /\ ret.sections[2].JobName = <<"b">>
    /\ \E j \in 1..(ret.sections[2].Line - 1) : CorpusLines[j] = HdrA

-----------------------------------------------------------------------------
(* Claims on error handling in filterLogLines and extractSection *)

BothSet(opts) == opts.Filter # <<>> /\ opts.FilterRegex # <<>>

\* C13: a filterLogLines call whose options carry both a non-empty substring
\* and a non-empty regex pattern is rejected with an error; neither of the two
\* is silently preferred.
C13_BothSetRejected ==
    (req.op = "filterLogLines" /\ BothSet(req.opts)) => ret.res.err # NoErr

-----------------------------------------------------------------------------
(* Repeated calls sharing the process-wide regex cache *)

MaxRegexLines == 2

RegexLineSet == {<<"x">>, <<G1, "x">>, <<E1>>}

RegexTexts == {Join(ls) : ls \in SeqsUpTo(RegexLineSet, MaxRegexLines)}

RegexPatterns == {<<"x">>, <<"k">>, <<BadRe>>, <<"x", BadRe>>}

InitRegex ==
    /\ logs \in RegexTexts
    /\ archive = <<>>
    /\ regexCache = {}
    /\ req = NoCall
    /\ ret = NoCall
    /\ zipCall = NoZipCall
    /\ Quiescent

\* filterLogLines with a regex, any number of times in one process
RegexFilterCall ==
    \E pattern \in RegexPatterns :
        LET opts == [Filter |-> <<>>, FilterRegex |-> pattern, ContextLines |-> 0]
            parsedLines == parseLogLines(logs)
        IN /\ req' = [op |-> "filterLogLines", opts |-> opts]
           /\ ret' = [op |-> "filterLogLines",
                      parsed |-> parsedLines,
                      res |-> filterLogLines(parsedLines, opts)]
           /\ regexCache' = CacheAfter(regexCache, pattern)
           /\ UNCHANGED <<logs, archive, zipCall,
                     waitCall, world, goroutines, regexCacheMutex>>

\* extractSection, any number of times in one process
RegexExtractCall ==
    \E pattern \in RegexPatterns :
        /\ req' = [op |-> "extractSection", pattern |-> pattern]
        /\ ret' = [op |-> "extractSection",
                   res |-> extractSection(logs, pattern)]
        /\ regexCache' = CacheAfter(regexCache, pattern)
        /\ UNCHANGED <<logs, archive, zipCall,
                     waitCall, world, goroutines, regexCacheMutex>>

NextRegex == RegexFilterCall \/ RegexExtractCall

SpecRegex == InitRegex /\ [][NextRegex]_vars

\* C14: a call of filterLogLines or extractSection with an invalid regular
\* expression returns an error that names the pattern and no lines or text
\* at all, and the regex cache holds no entry for the pattern afterwards (the
\* cache never holds a pattern that does not compile, so a repeated call
\* compiles it again and fails again).
C14_InvalidRegexFails ==
    /\ (req.op = "filterLogLines" /\ ~ValidRegex(req.opts.FilterRegex)) =>
           /\ ret.res.err = [kind |-> "invalid regex pattern",
                             pattern |-> req.opts.FilterRegex]
           /\ ret.res.lines = <<>>
           /\ ret.res.isNil
           /\ req.opts.FilterRegex \notin regexCache
    /\ (req.op = "extractSection" /\ ~ValidRegex(req.pattern)) =>
           /\ ret.res.err = [kind |-> "invalid section pattern",
                             pattern |-> req.pattern]
           /\ ret.res.text = <<>>
           /\ req.pattern \notin regexCache
    /\ \A p \in regexCache : ValidRegex(p)

\* An invalid pattern fails in a process whose cache already holds compiled
\* patterns from earlier calls, on a text the valid patterns match.
C14_Witness ==
    /\ req.op = "extractSection"
    /\ req.pattern = <<"x", BadRe>>
    /\ ret.res.err.kind = "invalid section pattern"
    /\ regexCache = {<<"x">>, <<"k">>}
    /\ logs = Join(<< <<G1, "x">>, <<E1>> >>)

-----------------------------------------------------------------------------
(* Claims on corpus assembly *)

\* the same entries in every archive order
Reorderings(files) ==
    {[i \in 1..Len(files) |-> files[p[i]]] : p \in Permutations(1..Len(files))}

-----------------------------------------------------------------------------
(* Reading the archive: readZipArchive step by step, and the loop of        *)
(* GetWorkflowJobLogs                                                        *)

logSizeThreshold == 10 * 1024 * 1024

maxLogFileSize == 50 * 1024 * 1024

MaxEntries == 2

\* One entry of the ZIP central directory: size is UncompressedSize64, fault
\* says whether file.Open ("open") or io.ReadAll ("read") fails on it.
ZipEntrySet ==
    {[name |-> <<"a">>, data |-> <<"x">>, size |-> 1, isDir |-> FALSE, fault |-> "none"],
     [name |-> <<"b">>, data |-> <<"k">>, size |-> 1, isDir |-> FALSE, fault |-> "none"],
     [name |-> <<"b">>, data |-> <<"B">>, size |-> maxLogFileSize + 1,
      isDir |-> FALSE, fault |-> "none"],
     [name |-> <<"a">>, data |-> <<"D">>, size |-> maxLogFileSize,
      isDir |-> FALSE, fault |-> "none"],
     [name |-> <<"a">>, data |-> <<>>, size |-> 0, isDir |-> TRUE, fault |-> "none"],
     [name |-> <<"b">>, data |-> <<"X">>, size |-> 1, isDir |-> FALSE, fault |-> "open"],
     [name |-> <<"a">>, data |-> <<"k">>, size |-> 1, isDir |-> FALSE, fault |-> "read"]}

ZipArchives == SeqsUpTo(ZipEntrySet, MaxEntries)

\* zipResp.ContentLength: unknown (-1), small, at the threshold, above it
ContentLengths == {-1, 1, logSizeThreshold, logSizeThreshold + 1}

ZipFrame(pc) ==
    [pc |-> pc, useTempFile |-> FALSE, created |-> FALSE, tempOpen |-> FALSE,
     tempExists |-> FALSE, idx |-> 1, logFiles |-> <<>>]

ZipResult(logFiles, err) ==
    [op |-> "readZipArchive", logFiles |-> logFiles, err |-> err]

\* tempFile.Close() without os.Remove(tempFile.Name())
CloseOnly(zc) == [zc EXCEPT !.tempOpen = FALSE]

\* tempFile.Close(); os.Remove(tempFile.Name())
CloseAndRemove(zc) == [zc EXCEPT !.tempOpen = FALSE, !.tempExists = FALSE]

\* the cleanup function set up by the branch taken
cleanup(zc) == IF zc.useTempFile THEN CloseAndRemove(zc) ELSE zc

InitArchive ==
    /\ archive \in ZipArchives
    /\ logs = <<>>
    /\ regexCache = {}
    /\ req = NoCall
    /\ ret = NoCall
    /\ zipCall = NoZipCall
    /\ Quiescent

\* httpClient.Get and the status check
ZipGet ==
    \E contentLength \in ContentLengths, outcome \in {"ok", "error", "status"} :
        /\ req = NoCall
        /\ req' = [op |-> "readZipArchive", contentLength |-> contentLength]
        /\ IF outcome = "ok"
           THEN /\ zipCall' = ZipFrame("fetched")
                /\ ret' = ret
           ELSE /\ zipCall' = ZipFrame("done")
                /\ ret' = ZipResult(<<>>, "failed to fetch ZIP")
        /\ UNCHANGED <<logs, archive, regexCache,
                     waitCall, world, goroutines, regexCacheMutex>>

\* useTempFile, then os.CreateTemp or io.ReadAll of the body
ZipChoose ==
    \E ok \in BOOLEAN :
        LET useTempFile == \/ req.contentLength > logSizeThreshold
                           \/ req.contentLength < 0
        IN /\ zipCall.pc = "fetched"
           /\ IF useTempFile
              THEN IF ok
                   THEN /\ zipCall' = [zipCall EXCEPT !.pc = "copy",
                                          !.useTempFile = TRUE, !.created = TRUE,
                                          !.tempOpen = TRUE, !.tempExists = TRUE]
                        /\ ret' = ret
                   ELSE /\ zipCall' = [zipCall EXCEPT !.pc = "done",
                                          !.useTempFile = TRUE]
                        /\ ret' = ZipResult(<<>>, "failed to create temp file")
              ELSE IF ok
                   THEN /\ zipCall' = [zipCall EXCEPT !.pc = "newReader"]
                        /\ ret' = ret
                   ELSE /\ zipCall' = [zipCall EXCEPT !.pc = "done"]
                        /\ ret' = ZipResult(<<>>, "failed to read ZIP")
           /\ UNCHANGED <<logs, archive, regexCache, req,
                     waitCall, world, goroutines, regexCacheMutex>>

\* io.Copy(tempFile, zipResp.Body)
ZipCopy ==
    \E ok \in BOOLEAN :
        /\ zipCall.pc = "copy"
        /\ IF ok
           THEN /\ zipCall' = [zipCall EXCEPT !.pc = "seek"]
                /\ ret' = ret
           ELSE /\ zipCall' = [CloseAndRemove(zipCall) EXCEPT !.pc = "done"]
                /\ ret' = ZipResult(<<>>, "failed to write to temp file")
        /\ UNCHANGED <<logs, archive, regexCache, req,
                     waitCall, world, goroutines, regexCacheMutex>>

\* tempFile.Seek(0, 0)
ZipSeek ==
    \E ok \in BOOLEAN :
        /\ zipCall.pc = "seek"
        /\ IF ok
           THEN /\ zipCall' = [zipCall EXCEPT !.pc = "newReader"]
                /\ ret' = ret
           ELSE /\ zipCall' = [CloseAndRemove(zipCall) EXCEPT !.pc = "done"]
                /\ ret' = ZipResult(<<>>, "failed to seek temp file")
        /\ UNCHANGED <<logs, archive, regexCache, req,
                     waitCall, world, goroutines, regexCacheMutex>>

\* zip.NewReader, on the temp file or on the bytes in memory
ZipNewReader ==
    \E ok \in BOOLEAN :
        /\ zipCall.pc = "newReader"
        /\ IF ok
           THEN /\ zipCall' = [zipCall EXCEPT !.pc = "files"]
                /\ ret' = ret
           ELSE /\ zipCall' = [(IF zipCall.useTempFile
                                THEN CloseAndRemove(zipCall) ELSE zipCall)
                               EXCEPT !.pc = "done"]
                /\ ret' = ZipResult(<<>>, "failed to open ZIP")
        /\ UNCHANGED <<logs, archive, regexCache, req,
                     waitCall, world, goroutines, regexCacheMutex>>

\* one iteration of `for _, file := range zipReader.File`
ZipFile ==
    /\ zipCall.pc = "files"
    /\ zipCall.idx <= Len(archive)
    /\ LET file == archive[zipCall.idx]
           kept == /\ ~file.isDir
                   /\ ~(file.size > maxLogFileSize)
                   /\ file.fault = "none"
       IN zipCall' = [zipCall EXCEPT
                         !.idx = @ + 1,
                         !.logFiles = IF kept
                                      THEN Append(@, [name |-> file.name,
                                                      data |-> file.data])
                                      ELSE @]
    /\ UNCHANGED <<logs, archive, regexCache, req, ret,
                     waitCall, world, goroutines, regexCacheMutex>>

\* cleanup() after the loop
ZipCleanup ==
    /\ zipCall.pc = "files"
    /\ zipCall.idx > Len(archive)
    /\ zipCall' = [cleanup(zipCall) EXCEPT !.pc = "sort"]
    /\ UNCHANGED <<logs, archive, regexCache, req, ret,
                     waitCall, world, goroutines, regexCacheMutex>>

\* sort.Slice and return
ZipReturn ==
    /\ zipCall.pc = "sort"
    /\ zipCall' = [zipCall EXCEPT !.pc = "done"]
    /\ ret' = ZipResult(SortByName(zipCall.logFiles), "none")
    /\ UNCHANGED <<logs, archive, regexCache, req,
                     waitCall, world, goroutines, regexCacheMutex>>

\* the entries the loop of GetWorkflowJobLogs appends
RECURSIVE JobReadEntries(_)
JobReadEntries(zip) ==
    IF Len(zip) = 0 THEN <<>>
    ELSE (IF ~zip[1].isDir /\ zip[1].fault = "none"
          THEN <<[name |-> zip[1].name, data |-> zip[1].data]>>
          ELSE <<>>)
         \o JobReadEntries(Tail(zip))

\* GetWorkflowJobLogs on an archive that is fetched and opened
JobArchiveCall ==
    LET logFiles == SortByName(JobReadEntries(archive))
    IN /\ req = NoCall
       /\ req' = [op |-> "GetWorkflowJobLogs", head |-> 0, tail |-> 0, offset |-> 0,
                  noHeaders |-> FALSE, filterOpts |-> NoFilter]
       /\ ret' = [op |-> "GetWorkflowJobLogs", logFiles |-> logFiles, err |-> "none",
                  text |-> LogsFromFiles(logFiles, 0, 0, 0, FALSE, NoFilter).text]
       /\ UNCHANGED <<logs, archive, regexCache, zipCall,
                     waitCall, world, goroutines, regexCacheMutex>>

NextArchive ==
    \/ ZipGet
    \/ ZipChoose
    \/ ZipCopy
    \/ ZipSeek
    \/ ZipNewReader
    \/ ZipFile
    \/ ZipCleanup
    \/ ZipReturn
    \/ JobArchiveCall

SpecArchive == InitArchive /\ [][NextArchive]_vars

-----------------------------------------------------------------------------
(* Claims on archive reading *)

ArchiveRead ==
    /\ req.op \in {"readZipArchive", "GetWorkflowJobLogs"}
    /\ ret # NoCall
    /\ ret.err = "none"

\* C16: an archive entry whose declared uncompressed size exceeds
\* maxLogFileSize is never part of the files an archive read returns, on the
\* run-log path (readZipArchive) and on the job-log path (GetWorkflowJobLogs).
C16_OversizedNeverIncluded ==
    ArchiveRead =>
        \A i \in 1..Len(archive) :
            archive[i].size > maxLogFileSize =>
                \A k \in 1..Len(ret.logFiles) :
                    ret.logFiles[k] # [name |-> archive[i].name,
                                       data |-> archive[i].data]

NeedsTempFile == req.contentLength > logSizeThreshold \/ req.contentLength < 0

\* C17: readZipArchive has created a temporary file exactly when the declared
\* size is above logSizeThreshold or unknown (and os.CreateTemp succeeded),
\* and whenever the call has returned after creating it, on any path, the
\* file is closed and removed.
C17_TempFileReleased ==
    req.op = "readZipArchive" =>
        /\ zipCall.created => NeedsTempFile
        /\ (/\ NeedsTempFile
            /\ zipCall.pc # "fetched"
            /\ ~(zipCall.pc = "done" /\ ret.err \in {"failed to fetch ZIP",
                                                    "failed to create temp file"}))
           => zipCall.created
        /\ (zipCall.pc = "done" /\ zipCall.created) =>
               ~zipCall.tempOpen /\ ~zipCall.tempExists

\* A call that spilled to a temporary file, met an entry it could not read
\* and one it could, and returned the readable one with the file gone.
C17_Witness ==
    /\ req.op = "readZipArchive"
    /\ req.contentLength = -1
    /\ zipCall.pc = "done"
    /\ zipCall.created
    /\ ~zipCall.tempExists
    /\ ret.err = "none"
    /\ Len(ret.logFiles) = 1
    /\ \E i \in 1..Len(archive) : archive[i].fault = "read"

-----------------------------------------------------------------------------
(* Claims on repeated and composed line limiting *)

\* the output of the first application is within the head/tail bound
WithinBound ==
    /\ req.tail > 0 => Len(ret.final) <= req.tail
    /\ (req.tail = 0 /\ req.head > 0) => Len(ret.final) <= req.head

\* C18 as stated: once the first application has reduced the sequence to
\* within the head/tail bound, applying the line limiting a second time with
\* the same offset, head and tail to its own output returns it unchanged.
C18_WindowIdempotent ==
    (Limited /\ WithinBound) =>
        Window(ret.final, req.offset, req.head, req.tail) = ret.final

\* C18, amended: the second application returns the output unchanged exactly
\* when the offset is 0 or is not smaller than the number of lines of that
\* output; an offset in between drops that many further lines.
C18_WindowIdempotentWithoutOffset ==
    (Limited /\ WithinBound) =>
        (Window(ret.final, req.offset, req.head, req.tail) = ret.final
         <=> (req.offset = 0 \/ req.offset >= Len(ret.final)))

\* Five lines cut to the first two by head = 2 with no offset; cutting again
\* leaves the two.
C18_Witness ==
    /\ Limited
    /\ req.offset = 0 /\ req.head = 2 /\ req.tail = 0
    /\ Len(ret.lines) = 5
    /\ ret.final = SubSeq(ret.lines, 1, 2)
    /\ Window(ret.final, req.offset, req.head, req.tail) = ret.final

-----------------------------------------------------------------------------
(* Entry points: the MCP handlers getRunLogs / getJobLogs and the CLI logs   *)
(* command runLogs                                                           *)

MaxEntryCount == 1

\* fmt.Println("(no matching logs)")
NoMatchingLogs == <<"(no matching logs)", NL>>

HandlerError(kind, res) ==
    [isError |-> TRUE, kind |-> kind, logs |-> <<>>, output |-> <<>>, res |-> res]

\* errorResult(...) on err != nil, textResult(logs) otherwise
McpResult(res) ==
    IF res.err # NoErr THEN HandlerError(res.err.kind, res)
    ELSE [isError |-> FALSE, kind |-> "none", logs |-> res.text,
          output |-> res.text, res |-> res]

\* the error return, or the text printed: "(no matching logs)" for ""
CliResult(res) ==
    IF res.err # NoErr THEN HandlerError(res.err.kind, res)
    ELSE [isError |-> FALSE, kind |-> "none", logs |-> res.text,
          output |-> IF res.text = <<>> THEN NoMatchingLogs ELSE res.text,
          res |-> res]

HandlerFilterOpts(a) ==
    [Filter |-> a.search, FilterRegex |-> a.searchRegex, ContextLines |-> a.context]

\* the part shared by getRunLogs and getJobLogs; byJob tells them apart
McpLogs(zip, byJob, a) ==
    IF a.search # <<>> /\ a.searchRegex # <<>>
    THEN HandlerError("search and search_regex are mutually exclusive", NoCall)
    ELSE McpResult(IF a.section # <<>>
                   THEN GetLogSection(zip, byJob, a.section, HandlerFilterOpts(a))
                   ELSE IF byJob
                   THEN GetWorkflowJobLogs(zip, a.head, a.tail, a.offset,
                                           a.noHeaders, HandlerFilterOpts(a))
                   ELSE GetWorkflowLogsWithPattern(zip, a.head, a.tail, a.offset,
                            a.noHeaders, a.filePattern, HandlerFilterOpts(a)))

getRunLogs(zip, a) == McpLogs(zip, FALSE, a)

getJobLogs(zip, a) == McpLogs(zip, TRUE, a)

\* the CLI logs command; byJob is jobID > 0
runLogs(zip, byJob, a) ==
    CliResult(IF a.section # <<>>
              THEN GetLogSection(zip, byJob, a.section, HandlerFilterOpts(a))
              ELSE IF byJob
              THEN GetWorkflowJobLogs(zip, a.head, a.tail, a.offset,
                                      a.noHeaders, HandlerFilterOpts(a))
              ELSE GetWorkflowLogs(zip, a.head, a.tail, a.offset,
                                   a.noHeaders, HandlerFilterOpts(a)))

\* the regex cache after a handler ran
EntryCacheAfter(cache, a, r) ==
    IF r.res = NoCall THEN cache
    ELSE LET afterSection == IF a.section # <<>>
                             THEN CacheAfter(cache, a.section) ELSE cache
         IN  IF a.searchRegex # <<>> /\ r.res.err.kind \notin
                    {"invalid section pattern", "section not found"}
             THEN CacheAfter(afterSection, a.searchRegex)
             ELSE afterSection

EntryData == {GroupData, <<"k", NL, "x", NL>>, <<"k", NL>>}

EntryArchives ==
    {<<>>}
    \cup {<<[name |-> n, data |-> d]>> : n \in FileNames, d \in EntryData}
    \cup {fs \in {<<[name |-> n1, data |-> d1], [name |-> n2, data |-> d2]>> :
                     n1 \in FileNames, n2 \in FileNames,
                     d1 \in EntryData, d2 \in EntryData} :
            fs[1].name # fs[2].name}

EntryArgs ==
    [head : 0..MaxEntryCount, tail : 0..MaxEntryCount, offset : 0..MaxEntryCount,
     search : {<<>>, <<"x">>}, searchRegex : {<<>>, <<"x">>},
     context : {0, 1}, noHeaders : BOOLEAN, filePattern : {<<>>},
     section : {<<>>, <<"B">>}]

InitEntry ==
    /\ archive \in EntryArchives
    /\ logs = <<>>
    /\ regexCache = {}
    /\ req = NoCall
    /\ ret = NoCall
    /\ zipCall = NoZipCall
    /\ Quiescent

McpRunLogs ==
    \E a \in EntryArgs :
        /\ req = NoCall
        /\ req' = [op |-> "getRunLogs", byJob |-> FALSE, args |-> a]
        /\ ret' = getRunLogs(archive, a)
        /\ regexCache' = EntryCacheAfter(regexCache, a, ret')
        /\ UNCHANGED <<logs, archive, zipCall,
                     waitCall, world, goroutines, regexCacheMutex>>

McpJobLogs ==
    \E a \in EntryArgs :
        /\ req = NoCall
        /\ req' = [op |-> "getJobLogs", byJob |-> TRUE, args |-> a]
        /\ ret' = getJobLogs(archive, a)
        /\ regexCache' = EntryCacheAfter(regexCache, a, ret')
        /\ UNCHANGED <<logs, archive, zipCall,
                     waitCall, world, goroutines, regexCacheMutex>>

CliRunLogs ==
    \E a \in EntryArgs, byJob \in BOOLEAN :
        /\ req = NoCall
        /\ req' = [op |-> "runLogs", byJob |-> byJob, args |-> a]
        /\ ret' = runLogs(archive, byJob, a)
        /\ regexCache' = EntryCacheAfter(regexCache, a, ret')
        /\ UNCHANGED <<logs, archive, zipCall,
                     waitCall, world, goroutines, regexCacheMutex>>

NextEntry == McpRunLogs \/ McpJobLogs \/ CliRunLogs

SpecEntry == InitEntry /\ [][NextEntry]_vars

-----------------------------------------------------------------------------
(* Claims on the entry points *)

Handled == req.op \in {"getRunLogs", "getJobLogs", "runLogs"}

\* the text the section stage (extract, then the optional filter) hands on
SectionStageLines ==
    Split(GetLogSection(archive, req.byJob, req.args.section,
              [Filter |-> req.args.search, FilterRegex |-> req.args.searchRegex,
               ContextLines |-> req.args.context]).text)

\* C19: when a section pattern is requested, the extracted (and optionally
\* filtered) section text is sliced by offset, then tail or head, before it is
\* returned, as the text of a request without a section is: the returned
\* lines are the window of the section's lines.
C19_SectionThenWindow ==
    (Handled /\ req.args.section # <<>> /\ ~ret.isError /\ ret.logs # <<>>) =>
        LET w == Window(SectionStageLines, req.args.offset, req.args.head,
                        req.args.tail)
        IN  ret.logs \in {Join(w), Render(w)}

\* the options a handler call builds from its arguments
EntryFilterOpts ==
    [Filter |-> req.args.search, FilterRegex |-> req.args.searchRegex,
     ContextLines |-> req.args.context]

\* the number of corpus lines one file's data contributes
NumDataLines(data) ==
    Len(Split(data)) - (IF HasSuffix(data, <<NL>>) THEN 1 ELSE 0)

\* for every line of the assembled corpus, the name of the archive file it
\* comes from
RECURSIVE OwnersOf(_, _)
OwnersOf(files, noHeaders) ==
    IF Len(files) = 0 THEN <<>>
    ELSE (IF noHeaders THEN <<>> ELSE <<files[1].name>>)
         \o [i \in 1..NumDataLines(files[1].data) |-> files[1].name]
         \o OwnersOf(Tail(files), noHeaders)

EntryCorpus ==
    Split(TrimRightNL(Assemble(readZipArchive(archive), req.args.noHeaders)))

EntryOwners == OwnersOf(readZipArchive(archive), req.args.noHeaders)

\* corpus positions of the lines satisfying the predicate
EntryMatches ==
    {m \in 1..Len(EntryCorpus) :
        /\ ~IsHeaderLine(EntryCorpus[m])
        /\ Matcher(EntryFilterOpts, EntryCorpus[m])}

\* matches, and lines of the same file within contextLines of a match
SameFileContext ==
    {i \in 1..Len(EntryCorpus) :
        /\ ~IsHeaderLine(EntryCorpus[i])
        /\ \E m \in EntryMatches :
               /\ EntryOwners[i] = EntryOwners[m]
               /\ Dist(i, m) <= req.args.context}

RECURSIVE LinesAt(_, _, _)
LinesAt(lines, i, positions) ==
    IF i > Len(lines) THEN <<>>
    ELSE (IF i \in positions THEN <<lines[i]>> ELSE <<>>)
         \o LinesAt(lines, i + 1, positions)

IsNotHeader(line) == ~IsHeaderLine(line)

\* C20: in the full pipeline (assemble, then filter) on an archive of two or
\* more files with contextLines > 0, the non-header lines of the filtered
\* output are exactly the matches and the lines of the match's own file
\* within contextLines of it, with file headers or with noHeaders = true: no
\* context line comes from another file.
C20_ContextStaysInFileAnyHeaders ==
    (/\ Handled
     /\ req.args.section = <<>>
     /\ FilterSet(EntryFilterOpts)
     /\ req.args.context > 0
     /\ Len(archive) >= 2
     /\ ~ret.isError
     /\ ret.res.limited) =>
        SelectSeq(ret.res.lines, IsNotHeader) = LinesAt(EntryCorpus, 1, SameFileContext)

--------------------------------------------------------------------------
(* WaitForWorkflowRun: the polling loop, one step per statement that reads  *)
(* the clock, the context or GitHub.  Time is counted in seconds.           *)

defaultPollInterval == 5
defaultMaxWait == 600

\* the longest a status fetch takes, in seconds
MaxFetchDelay == 1

\* the arguments tried for pollInterval and maxWait
PollIntervals == {0, 300}
MaxWaits == {0, 10}

NoRun == [status |-> "none", conclusion |-> ""]

\* the run as GitHub holds it
RunStates ==
    {[status |-> "queued", conclusion |-> ""],
     [status |-> "in_progress", conclusion |-> ""],
     [status |-> "completed", conclusion |-> "success"],
     [status |-> "completed", conclusion |-> "failure"]}

\* a run moves forward only; a completed run can be re-run
RunMoves(r) ==
    CASE r.status = "queued" -> {x \in RunStates : x.status # "queued"}
      [] r.status = "in_progress" -> {x \in RunStates : x.status = "completed"}
      [] OTHER -> {x \in RunStates : x.status = "queued"}

\* result := &WaitResult{}
NewWaitResult == [Run |-> NoRun, TimedOut |-> FALSE, PollCount |-> 0,
                  Elapsed |-> 0]

NilWaitResult == [Run |-> NoRun, TimedOut |-> FALSE, PollCount |-> 0,
                  Elapsed |-> 0, isNil |-> TRUE]

\* result.Run = run without result.PollCount++
WaitObserveNoCount(result, run) == [result EXCEPT !.Run = run]

\* result.Run = run; result.PollCount++
WaitObserve(result, run) ==
    [result EXCEPT !.Run = run, !.PollCount = @ + 1]

\* if maxWait <= 0 { maxWait = defaultMaxWait }
MaxWaitOrDefault(maxWait) == IF maxWait <= 0 THEN defaultMaxWait ELSE maxWait

\* if pollInterval <= 0 { pollInterval = defaultPollInterval }
PollIntervalOrDefault(pollInterval) ==
    IF pollInterval <= 0 THEN defaultPollInterval ELSE pollInterval

WaitReturn(result, err) ==
    [op |-> "WaitForWorkflowRun", result |-> result, err |-> err]

InitWait ==
    /\ logs = <<>>
    /\ archive = <<>>
    /\ regexCache = {}
    /\ req = NoCall
    /\ ret = NoCall
    /\ zipCall = NoZipCall
    /\ waitCall = NoWaitCall
    /\ world \in {[clock |-> 0, ctxDone |-> FALSE, run |-> r, served |-> 0,
                   lastServed |-> NoRun] : r \in RunStates}
    /\ goroutines = <<>>
    /\ regexCacheMutex = Unlocked

\* entry: defaults, durations, startTime := time.Now(), result := &WaitResult{}
WaitStart ==
    \E pollInterval \in PollIntervals, maxWait \in MaxWaits :
        /\ req = NoCall
        /\ req' = [op |-> "WaitForWorkflowRun", pollInterval |-> pollInterval,
                   maxWait |-> maxWait]
        /\ waitCall' = [pc |-> "check_ctx",
                        pollDuration |-> PollIntervalOrDefault(pollInterval),
                        maxDuration |-> MaxWaitOrDefault(maxWait),
                        startTime |-> world.clock,
                        result |-> NewWaitResult]
        /\ UNCHANGED <<logs, archive, regexCache, ret, zipCall, world,
                       goroutines, regexCacheMutex>>

\* select { case <-ctx.Done(): return result, ctx.Err(); default: }
WaitCheckCtx ==
    /\ waitCall.pc = "check_ctx"
    /\ IF world.ctxDone
       THEN /\ waitCall' = [waitCall EXCEPT !.pc = "done"]
            /\ ret' = WaitReturn(waitCall.result, "context")
       ELSE /\ waitCall' = [waitCall EXCEPT !.pc = "check_time"]
            /\ ret' = ret
    /\ UNCHANGED <<logs, archive, regexCache, req, zipCall, world,
                   goroutines, regexCacheMutex>>

\* if maxDuration > 0 && time.Since(startTime) > maxDuration { ... }
WaitCheckTime ==
    /\ waitCall.pc = "check_time"
    /\ IF /\ waitCall.maxDuration > 0
          /\ world.clock - waitCall.startTime > waitCall.maxDuration
       THEN /\ waitCall' = [waitCall EXCEPT !.pc = "done",
                               !.result.TimedOut = TRUE,
                               !.result.Elapsed =
                                   world.clock - waitCall.startTime]
            /\ ret' = WaitReturn(waitCall'.result, "did not complete within")
       ELSE /\ waitCall' = [waitCall EXCEPT !.pc = "fetch"]
            /\ ret' = ret
    /\ UNCHANGED <<logs, archive, regexCache, req, zipCall, world,
                   goroutines, regexCacheMutex>>

\* run, err := c.GetWorkflowRun(ctx, runID) and what follows up to the timer
WaitFetch ==
    \E ok \in BOOLEAN, delay \in 0..MaxFetchDelay :
        /\ waitCall.pc = "fetch"
        /\ IF ok
           THEN /\ world' = [world EXCEPT !.clock = @ + delay,
                                !.served = @ + 1, !.lastServed = world.run]
                /\ IF world.run.status = "completed"
                   THEN /\ waitCall' = [waitCall EXCEPT !.pc = "done",
                               !.result = WaitObserve(@, world.run)]
                        /\ ret' = WaitReturn(waitCall'.result, "nil")
                   ELSE /\ waitCall' = [waitCall EXCEPT !.pc = "sleep",
                               !.result = WaitObserve(@, world.run)]
                        /\ ret' = ret
           ELSE /\ world' = [world EXCEPT !.clock = @ + delay]
                /\ waitCall' = [waitCall EXCEPT !.pc = "done"]
                /\ ret' = WaitReturn(NilWaitResult, "failed to get workflow run")
        /\ UNCHANGED <<logs, archive, regexCache, req, zipCall,
                       goroutines, regexCacheMutex>>

\* timer := time.NewTimer(pollDuration); select on ctx.Done() and timer.C
WaitSleep ==
    /\ waitCall.pc = "sleep"
    /\ \/ /\ world.ctxDone
          /\ waitCall' = [waitCall EXCEPT !.pc = "done"]
          /\ ret' = WaitReturn(waitCall.result, "context")
          /\ world' = world
       \/ /\ waitCall' = [waitCall EXCEPT !.pc = "check_ctx"]
          /\ ret' = ret
          /\ world' = [world EXCEPT !.clock = @ + waitCall.pollDuration]
    /\ UNCHANGED <<logs, archive, regexCache, req, zipCall,
                   goroutines, regexCacheMutex>>

\* GitHub: the run changes state while the caller waits
RunAdvance ==
    \E r \in RunMoves(world.run) :
        /\ waitCall.pc \notin {"idle", "done"}
        /\ world' = [world EXCEPT !.run = r]
        /\ UNCHANGED <<logs, archive, regexCache, req, ret, zipCall, waitCall,
                       goroutines, regexCacheMutex>>

\* the caller cancels the context
CtxCancel ==
    /\ waitCall.pc \notin {"idle", "done"}
    /\ ~world.ctxDone
    /\ world' = [world EXCEPT !.ctxDone = TRUE]
    /\ UNCHANGED <<logs, archive, regexCache, req, ret, zipCall, waitCall,
                   goroutines, regexCacheMutex>>

WaitForWorkflowRun ==
    WaitStart \/ WaitCheckCtx \/ WaitCheckTime \/ WaitFetch \/ WaitSleep

NextWait == WaitForWorkflowRun \/ RunAdvance \/ CtxCancel

SpecWait == InitWait /\ [][NextWait]_vars

\* the call has returned
WaitReturned == waitCall.pc = "done" /\ ret # NoCall

\* C21: a call with maxWait = 0 never returns the timed-out result
\* (TimedOut = true with the "did not complete within" error): with no time
\* limit the loop ends only on completion, fetch failure or cancellation
C21_ZeroMeansNoLimit ==
    (WaitReturned /\ req.maxWait = 0) =>
        /\ ~ret.result.TimedOut
        /\ ret.err # "did not complete within"

\* C22: a nil error is returned only when the most recent status fetch
\* observed the run as "completed"; the result then has TimedOut = false, Run
\* equal to the run that fetch observed, and PollCount equal to the number of
\* successful status fetches, which is at least 1
C22_NilErrorOnlyOnCompleted ==
    (WaitReturned /\ ret.err = "nil") =>
        /\ world.lastServed.status = "completed"
        /\ ~ret.result.TimedOut
        /\ ret.result.Run = world.lastServed
        /\ ret.result.PollCount = world.served
        /\ world.served >= 1

\* a call that returned nil after seeing the run unfinished at least once
C22_Witness ==
    /\ WaitReturned
    /\ ret.err = "nil"
    /\ ret.result.PollCount >= 2
    /\ ret.result.Run.conclusion = "failure"

--------------------------------------------------------------------------
(* Section extraction below the top level *)

\* sectionDepth after line j of a scan that has not captured yet
RECURSIVE ScanDepth(_, _)
ScanDepth(lines, j) ==
    IF j < 1 THEN 0
    ELSE IF IsGroupStart(lines[j]) THEN ScanDepth(lines, j - 1) + 1
    ELSE IF IsGroupEnd(lines[j]) THEN Max0(ScanDepth(lines, j - 1) - 1)
    ELSE ScanDepth(lines, j - 1)

\* C23: when the only matching opener sits at nesting depth greater than 1
\* (the depth before it is at least 1), capture stops at the closing marker
\* that returns the depth to its value before that opener: the output is the
\* lines from the opener through its own closer and nothing after it
C23_StopsAtOwnCloser ==
    (Extracted /\ req.pattern # <<>> /\ ValidRegex(req.pattern)) =>
        \A a \in 1..Len(CorpusLines) : \A b \in 1..Len(CorpusLines) :
            (/\ MatchingOpeners = {a}
             /\ ScanDepth(CorpusLines, a - 1) >= 1
             /\ Closes(CorpusLines, a, b)) =>
                ret.res.text = Join(SubSeq(CorpusLines, a, b))

--------------------------------------------------------------------------
(* The expand pass of filterLogLines, match by match *)

\* line j ends the walk away from match m: a header, or another fileSection
IsBoundary(lines, j, m) ==
    lines[j].isHeader \/ lines[j].fileSection # lines[m].fileSection

Between(i, m) == IF i < m THEN i..(m - 1) ELSE (m + 1)..i

\* C24: walking away from a match in either direction, the expand pass stops
\* at the first line that is a header or has another fileSection: every
\* context line it includes for a match has no such line between itself and
\* the match, also when two sections carry the same header text
C24_WalkStopsAtBoundary ==
    Filtered =>
        \A m \in MatchPositions :
            \A i \in ContextBefore(ret.parsed, m, req.opts.ContextLines)
                     \cup ContextAfter(ret.parsed, m, req.opts.ContextLines) :
                \A j \in Between(i, m) : ~IsBoundary(ret.parsed, j, m)

\* the corpus positions within contextLines of a match with no header and no
\* other fileSection between them and the match
InSectionContext ==
    {i \in 1..Len(ret.parsed) :
        /\ ~ret.parsed[i].isHeader
        /\ \E m \in MatchPositions :
               /\ Dist(i, m) <= req.opts.ContextLines
               /\ \A j \in Between(i, m) : ~IsBoundary(ret.parsed, j, m)}

NotHeader(l) == ~l.isHeader

\* C25: the non-header lines of the output are exactly the corpus lines within
\* contextLines of some matched line inside that match's file section, each
\* once and in corpus order; with contextLines = 0, exactly the matched lines
C25_ExactContext ==
    Filtered =>
        SelectSeq(ret.res.lines, NotHeader) = LinesAt(ret.parsed, 1, InSectionContext)

--------------------------------------------------------------------------
(* getCachedRegex called from several goroutines: one step per statement    *)
(* that touches regexCacheMutex or the regexCache map.  In this              *)
(* specification regexCache maps each cached pattern to its compiled         *)
(* object, named by the goroutine and call that compiled it.                 *)

NumGoroutines == 2
\* the calls made by all goroutines together
MaxCalls == 3

Goroutines == 1..NumGoroutines

CachePatterns == {<<"x">>, <<"k">>, <<BadRe>>}

NoRegexp == <<0, 0>>

\* a goroutine between calls
IdleGoroutine == [pc |-> "idle", pattern |-> <<>>, re |-> NoRegexp,
                  ok |-> FALSE, calls |-> 0, err |-> FALSE]

\* sync.RWMutex: RLock waits while a writer holds or has asked for the lock
CanRLock(mu) == mu.writer = 0 /\ mu.pending = {}

\* RLock that takes nothing
RLockNothing(mu, g) == mu

RLock(mu, g) == [mu EXCEPT !.readers = @ \cup {g}]

RUnlock(mu, g) == [mu EXCEPT !.readers = @ \ {g}]

\* Lock waits for the writer and all readers to leave
CanLock(mu) == mu.writer = 0 /\ mu.readers = {}

Lock(mu, g) == [mu EXCEPT !.writer = g, !.pending = @ \ {g}]

Unlock(mu, g) == [mu EXCEPT !.writer = 0]

\* regexCache[pattern] = compiled
CachePut(cache, pattern, compiled) ==
    [p \in DOMAIN cache \cup {pattern} |->
        IF p = pattern THEN compiled ELSE cache[p]]

InitCache ==
    /\ logs = <<>>
    /\ archive = <<>>
    /\ regexCache = <<>>
    /\ req = NoCall
    /\ ret = NoCall
    /\ zipCall = NoZipCall
    /\ waitCall = NoWaitCall
    /\ world = NoWorld
    /\ goroutines = [g \in Goroutines |-> IdleGoroutine]
    /\ regexCacheMutex = Unlocked

CacheFrame == <<logs, archive, req, ret, zipCall, waitCall, world>>

RECURSIVE CallsMade(_)
CallsMade(g) == IF g = 0 THEN 0 ELSE goroutines[g].calls + CallsMade(g - 1)

\* a goroutine enters getCachedRegex(pattern)
CacheCall(g) ==
    \E pattern \in CachePatterns :
        /\ goroutines[g].pc \in {"idle", "done"}
        /\ CallsMade(NumGoroutines) < MaxCalls
        /\ goroutines' = [goroutines EXCEPT ![g] =
               [pc |-> "rlock", pattern |-> pattern, re |-> NoRegexp,
                ok |-> FALSE, calls |-> goroutines[g].calls + 1, err |-> FALSE]]
        /\ UNCHANGED <<regexCache, regexCacheMutex, CacheFrame>>

\* regexCacheMutex.RLock()
CacheRLock(g) ==
    /\ goroutines[g].pc = "rlock"
    /\ CanRLock(regexCacheMutex)
    /\ regexCacheMutex' = RLock(regexCacheMutex, g)
    /\ goroutines' = [goroutines EXCEPT ![g].pc = "read"]
    /\ UNCHANGED <<regexCache, CacheFrame>>

\* re, ok := regexCache[pattern]
CacheRead(g) ==
    LET p == goroutines[g].pattern
    IN /\ goroutines[g].pc = "read"
       /\ goroutines' = [goroutines EXCEPT
              ![g].pc = "runlock",
              ![g].ok = p \in DOMAIN regexCache,
              ![g].re = IF p \in DOMAIN regexCache THEN regexCache[p]
                        ELSE NoRegexp]
       /\ UNCHANGED <<regexCache, regexCacheMutex, CacheFrame>>

\* regexCacheMutex.RUnlock(); if ok { return re, nil }
CacheRUnlock(g) ==
    /\ goroutines[g].pc = "runlock"
    /\ regexCacheMutex' = RUnlock(regexCacheMutex, g)
    /\ goroutines' = [goroutines EXCEPT
           ![g].pc = IF goroutines[g].ok THEN "done" ELSE "lock"]
    /\ UNCHANGED <<regexCache, CacheFrame>>

\* regexCacheMutex.Lock() is called: later readers wait behind it
CacheLockBegin(g) ==
    /\ goroutines[g].pc = "lock"
    /\ regexCacheMutex' = [regexCacheMutex EXCEPT !.pending = @ \cup {g}]
    /\ goroutines' = [goroutines EXCEPT ![g].pc = "locking"]
    /\ UNCHANGED <<regexCache, CacheFrame>>

\* regexCacheMutex.Lock() returns
CacheLock(g) ==
    /\ goroutines[g].pc = "locking"
    /\ CanLock(regexCacheMutex)
    /\ regexCacheMutex' = Lock(regexCacheMutex, g)
    /\ goroutines' = [goroutines EXCEPT ![g].pc = "recheck"]
    /\ UNCHANGED <<regexCache, CacheFrame>>

\* re, ok = regexCache[pattern]; if ok { return re, nil }
CacheRecheck(g) ==
    LET p == goroutines[g].pattern
    IN /\ goroutines[g].pc = "recheck"
       /\ goroutines' = [goroutines EXCEPT
              ![g].pc = IF p \in DOMAIN regexCache THEN "unlock" ELSE "compile",
              ![g].ok = p \in DOMAIN regexCache,
              ![g].re = IF p \in DOMAIN regexCache THEN regexCache[p]
                        ELSE NoRegexp]
       /\ UNCHANGED <<regexCache, regexCacheMutex, CacheFrame>>

\* compiled, err := regexp.Compile(pattern); if err != nil { return nil, err }
CacheCompile(g) ==
    /\ goroutines[g].pc = "compile"
    /\ goroutines' = [goroutines EXCEPT
           ![g].pc = IF ValidRegex(goroutines[g].pattern) THEN "store"
                     ELSE "unlock",
           ![g].err = ~ValidRegex(goroutines[g].pattern),
           ![g].re = IF ValidRegex(goroutines[g].pattern)
                     THEN <<g, goroutines[g].calls>> ELSE NoRegexp]
    /\ UNCHANGED <<regexCache, regexCacheMutex, CacheFrame>>

\* regexCache[pattern] = compiled; return compiled, nil
CacheStore(g) ==
    /\ goroutines[g].pc = "store"
    /\ regexCache' = CachePut(regexCache, goroutines[g].pattern, goroutines[g].re)
    /\ goroutines' = [goroutines EXCEPT ![g].pc = "unlock"]
    /\ UNCHANGED <<regexCacheMutex, CacheFrame>>

\* the deferred regexCacheMutex.Unlock() runs and the call returns
CacheUnlock(g) ==
    /\ goroutines[g].pc = "unlock"
    /\ regexCacheMutex' = Unlock(regexCacheMutex, g)
    /\ goroutines' = [goroutines EXCEPT ![g].pc = "done"]
    /\ UNCHANGED <<regexCache, CacheFrame>>

getCachedRegex(g) ==
    \/ CacheCall(g) \/ CacheRLock(g) \/ CacheRead(g) \/ CacheRUnlock(g)
    \/ CacheLockBegin(g) \/ CacheLock(g) \/ CacheRecheck(g)
    \/ CacheCompile(g) \/ CacheStore(g) \/ CacheUnlock(g)

\* a call that has been entered and has not returned
CacheRunning(g) == goroutines[g].pc \notin {"idle", "done"}

\* the steps of a running call: the scheduler lets every runnable goroutine
\* run, and the mutex wakes its waiters
CacheProgress(g) ==
    \/ CacheRLock(g) \/ CacheRead(g) \/ CacheRUnlock(g)
    \/ CacheLockBegin(g) \/ CacheLock(g) \/ CacheRecheck(g)
    \/ CacheCompile(g) \/ CacheStore(g) \/ CacheUnlock(g)

NextCache == \E g \in Goroutines : getCachedRegex(g)

SpecCache ==
    /\ InitCache
    /\ [][NextCache]_vars
    /\ \A g \in Goroutines : WF_vars(CacheProgress(g))

\* the map is read under the read or the write lock, written under the write
\* lock, a writer excludes readers, and a goroutine outside a call holds no lock
LockDiscipline ==
    /\ \A g \in Goroutines :
          /\ goroutines[g].pc = "read" => g \in regexCacheMutex.readers
          /\ goroutines[g].pc \in {"recheck", "store"} =>
                 regexCacheMutex.writer = g
          /\ ~CacheRunning(g) =>
                 /\ g \notin regexCacheMutex.readers
                 /\ regexCacheMutex.writer # g
                 /\ g \notin regexCacheMutex.pending
    /\ regexCacheMutex.writer # 0 => regexCacheMutex.readers = {}

\* an entry, once in the map, stays there with the same compiled object, and
\* only valid patterns get an entry
EntriesKept ==
    /\ \A p \in DOMAIN regexCache :
          p \in DOMAIN regexCache' /\ regexCache'[p] = regexCache[p]
    /\ \A p \in DOMAIN regexCache' : ValidRegex(p)

\* C26: under any interleaving of concurrent getCachedRegex calls the map is
\* read only under the read or write lock and written only under the write
\* lock; an entry is inserted at most once per pattern and never overwritten
\* or removed; every call returns, and holds no lock when it has returned
C26_CacheConcurrencySafe ==
    /\ []LockDiscipline
    /\ [][EntriesKept]_vars
    /\ \A g \in Goroutines : CacheRunning(g) ~> goroutines[g].pc = "done"

\* two goroutines missed on the same pattern under the read lock; one has
\* stored its entry and returned, the other found it in the re-check
C26_Witness ==
    \E g \in Goroutines : \E h \in Goroutines \ {g} :
        /\ goroutines[g].pc = "unlock"
        /\ goroutines[g].ok
        /\ goroutines[g].re = <<h, goroutines[h].calls>>
        /\ goroutines[h].pc = "done"
        /\ goroutines[h].pattern = goroutines[g].pattern

\* one turn of the scan loop on the loop variables
ScanStep(s, line, pattern) ==
    IF IsGroupStart(line)
    THEN [inSection |-> s.inSection \/ MatchString(pattern, line),
          sectionDepth |-> s.sectionDepth + 1]
    ELSE IF IsGroupEnd(line)
    THEN IF s.inSection
         THEN [inSection |-> s.sectionDepth - 1 # 0,
               sectionDepth |-> s.sectionDepth - 1]
         ELSE [inSection |-> FALSE,
               sectionDepth |-> Max0(s.sectionDepth - 1)]
    ELSE s

\* the loop variables before line i and after every later line
RECURSIVE ScanTrace(_, _, _, _)
ScanTrace(lines, i, s, pattern) ==
    IF i > Len(lines) THEN <<s>>
    ELSE <<s>> \o ScanTrace(lines, i + 1, ScanStep(s, lines[i], pattern), pattern)

\* the loop variables of extractSection after every prefix of the lines:
\* element j + 1 is the state after the first j lines
ScanStates(lines, pattern) ==
    ScanTrace(lines, 1, [inSection |-> FALSE, sectionDepth |-> 0], pattern)

\* closing markers at depth 0 come first, then the only matching opener a,
\* whose group holds no further group and closes at b
StrayClosersThenGroup(lines, a, b) ==
    /\ a > 1
    /\ IsGroupStart(lines[a])
    /\ MatchString(req.pattern, lines[a])
    /\ \A i \in 1..Len(lines) : IsGroupStart(lines[i]) => i >= a
    /\ \A i \in (a + 1)..Len(lines) :
          ~(IsGroupStart(lines[i]) /\ MatchString(req.pattern, lines[i]))
    /\ \E i \in 1..(a - 1) : IsGroupEnd(lines[i])
    /\ Closes(lines, a, b)
    /\ \A i \in (a + 1)..(b - 1) : ~IsGroupStart(lines[i])

\* C27: the depth counter of the scan is never negative after any prefix of
\* the lines; a closing marker met outside a capture at depth 0 leaves the
\* depth at 0, so a matching group that follows stray closing markers is
\* captured from its opening line through its own closing line
C27_DepthNeverNegative ==
    (Extracted /\ req.pattern # <<>> /\ ValidRegex(req.pattern)) =>
        \A lines \in {CorpusLines} :
            /\ \A trace \in {ScanStates(lines, req.pattern)} :
                  \A j \in 1..Len(trace) :
                      /\ trace[j].sectionDepth >= 0
                      /\ trace[j].inSection => trace[j].sectionDepth >= 1
                      /\ (/\ j > 1
                          /\ IsGroupEnd(lines[j - 1])
                          /\ ~IsGroupStart(lines[j - 1])
                          /\ trace[j - 1].sectionDepth = 0)
                             => trace[j].sectionDepth = 0
            /\ \A a \in 1..Len(lines) : \A b \in (a + 1)..Len(lines) :
                  StrayClosersThenGroup(lines, a, b) =>
                      /\ ret.res.err = NoErr
                      /\ ret.res.text = Join(SubSeq(lines, a, b))

\* two stray closing markers, then the matching group, then a further line
C27_Witness ==
    /\ Extracted
    /\ \E lines \in {CorpusLines} :
          \E a \in 3..Len(lines) : \E b \in (a + 1)..(Len(lines) - 1) :
              /\ StrayClosersThenGroup(lines, a, b)
              /\ IsGroupEnd(lines[1])
              /\ IsGroupEnd(lines[2])
              /\ ret.res.text = Join(SubSeq(lines, a, b))

\* the output turned into text, parsed, and filtered with the same options
FilteredAgain ==
    filterLogLines(parseLogLines(linesToString(ret.res.lines)), req.opts)

\* C28: filtering is idempotent: when the filter matched, the output written
\* with linesToString, parsed again with parseLogLines and filtered again
\* with the same options is the same sequence of lines
C28_FilterIdempotent ==
    Filtered =>
        \A again \in {FilteredAgain} :
            /\ again.err = NoErr
            /\ ~again.isNil
            /\ again.lines = ret.res.lines

\* the output is shorter than the corpus, spans two sections and holds
\* context lines besides the matches
C28_Witness ==
    /\ Filtered
    /\ req.opts.ContextLines > 0
    /\ Len(ret.res.lines) < Len(ret.parsed)
    /\ \E i \in 1..Len(ret.res.lines) : \E j \in 1..Len(ret.res.lines) :
          /\ ~ret.res.lines[i].isHeader
          /\ ~ret.res.lines[j].isHeader
          /\ ret.res.lines[i].fileSection # ret.res.lines[j].fileSection
    /\ \E i \in 1..Len(ret.res.lines) :
          /\ ~ret.res.lines[i].isHeader
          /\ ~Matcher(req.opts, ret.res.lines[i].content)

\* the groups of the corpus do not nest and are all closed: the depth is 0
\* or 1 after every line and 0 at the end
FlatGroups(lines) ==
    /\ \A j \in 1..Len(lines) : DepthFrom(lines, 1, j) \in {0, 1}
    /\ DepthFrom(lines, 1, Len(lines)) = 0

\* the positions from a matching opener through its closer
InMatchingGroup(lines) ==
    {i \in 1..Len(lines) :
        \E a \in 1..i : \E b \in i..Len(lines) :
            /\ IsGroupStart(lines[a])
            /\ MatchString(req.pattern, lines[a])
            /\ Closes(lines, a, b)}

\* C29: when several groups that do not nest have opening lines matching the
\* pattern, the result is the concatenation of all of them in corpus order,
\* each from its opening line through its closing line, and no line between
\* two captured groups is output
C29_AllMatchingGroups ==
    (Extracted /\ req.pattern # <<>> /\ ValidRegex(req.pattern)) =>
        \A lines \in {CorpusLines} :
            (FlatGroups(lines) /\ Cardinality(MatchingOpeners) >= 2) =>
                /\ ret.res.err = NoErr
                /\ ret.res.text = Join(LinesAt(lines, 1, InMatchingGroup(lines)))

\* two matching groups with a line between them that is not output
C29_Witness ==
    /\ Extracted
    /\ ret.res.err = NoErr
    /\ \E lines \in {CorpusLines} :
          /\ FlatGroups(lines)
          /\ Cardinality(MatchingOpeners) = 2
          /\ \E i \in 1..Len(lines) :
                /\ i \notin InMatchingGroup(lines)
                /\ \E a \in MatchingOpeners : a < i
                /\ \E a \in MatchingOpeners : a > i
          /\ Len(Split(ret.res.text)) = Len(lines) - 1

--------------------------------------------------------------------------
(* WaitForCommitChecks: the polling loop over the check runs of a ref, one  *)
(* step per statement that reads the clock, the context or GitHub.  A       *)
(* listing takes no time on the scale of the 15 second poll interval.       *)

defaultTimeoutMinutes == 30
pollIntervalSeconds == 15

\* the most check runs a ref has
MaxCheckRuns == 2

\* the arguments tried for timeoutMinutes and ref
TimeoutMinutes == {0, 1}
Refs == {<<>>, <<"a">>}

\* a check run as GitHub holds it
CheckRunStates ==
    {[Status |-> "in_progress", Conclusion |-> ""],
     [Status |-> "completed", Conclusion |-> "success"],
     [Status |-> "completed", Conclusion |-> "failure"],
     [Status |-> "completed", Conclusion |-> "timed_out"],
     [Status |-> "completed", Conclusion |-> "skipped"]}

\* a check run moves forward only
CheckMoves(cr) ==
    IF cr.Status = "completed" THEN {}
    ELSE {x \in CheckRunStates : x.Status = "completed"}

determineOverallState(checkRuns) ==
    LET hasPending == \E i \in 1..Len(checkRuns) :
                          checkRuns[i].Status # "completed"
        hasFailure == \E i \in 1..Len(checkRuns) :
                          /\ checkRuns[i].Status = "completed"
                          /\ checkRuns[i].Conclusion \in {"failure", "timed_out"}
        hasSuccess == \E i \in 1..Len(checkRuns) :
                          /\ checkRuns[i].Status = "completed"
                          /\ checkRuns[i].Conclusion = "success"
    IN IF Len(checkRuns) = 0 THEN "pending"
       ELSE IF hasPending THEN "pending"
       ELSE IF hasFailure THEN "failure"
       ELSE IF hasSuccess THEN "success"
       ELSE "neutral"

\* the key a check run is counted under in ByConclusion, "" for none
ConclusionKey(cr) ==
    IF cr.Conclusion # "" THEN cr.Conclusion
    ELSE IF cr.Status # "completed" THEN cr.Status
    ELSE ""

\* GetCheckRunsForRef on a successful listing
GetCheckRunsForRef(checkRuns) ==
    [CheckRuns |-> checkRuns,
     TotalCount |-> Len(checkRuns),
     ByConclusion |->
         [k \in {ConclusionKey(checkRuns[i]) : i \in 1..Len(checkRuns)} \ {""} |->
             Cardinality({i \in 1..Len(checkRuns) :
                             ConclusionKey(checkRuns[i]) = k})],
     State |-> determineOverallState(checkRuns)]

\* the allComplete loop stopping after the first check run
AllCompleteFirstOnly(checkRuns) ==
    Len(checkRuns) = 0 \/ checkRuns[1].Status = "completed"

\* the allComplete loop
AllComplete(checkRuns) ==
    \A i \in 1..Len(checkRuns) : checkRuns[i].Status = "completed"

NoChecksResult == [OverallConclusion |-> "", ChecksTotal |-> 0,
                   ChecksByConclusion |-> <<>>, DurationSeconds |-> 0,
                   TimeoutReached |-> FALSE, isNil |-> FALSE]

NilChecksResult == [NoChecksResult EXCEPT !.isNil = TRUE]

\* no listing was obtained in the turn of the loop that returned
NoStatus == [CheckRuns |-> <<>>, TotalCount |-> 0, ByConclusion |-> <<>>,
             State |-> "", listed |-> FALSE]

\* the listing obtained in the turn of the loop that returned
ListedStatus(status) ==
    [CheckRuns |-> status.CheckRuns, TotalCount |-> status.TotalCount,
     ByConclusion |-> status.ByConclusion, State |-> status.State,
     listed |-> TRUE]

\* the returned result and error, with the local status of that turn
ChecksReturn(result, err, status) ==
    [op |-> "WaitForCommitChecks", result |-> result, err |-> err,
     status |-> status]

InitChecks ==
    /\ logs = <<>>
    /\ archive = <<>>
    /\ regexCache = {}
    /\ req = NoCall
    /\ ret = NoCall
    /\ zipCall = NoZipCall
    /\ waitCall = NoWaitCall
    /\ world \in {[clock |-> 0, ctxDone |-> FALSE, checks |-> cs, served |-> 0] :
                  cs \in SeqsUpTo(CheckRunStates, MaxCheckRuns)}
    /\ goroutines = <<>>
    /\ regexCacheMutex = Unlocked

\* entry: the default timeout, GetLastCommit for an empty ref, the durations
\* and startTime := time.Now()
ChecksStart ==
    \E timeoutMinutes \in TimeoutMinutes, ref \in Refs, commitOk \in BOOLEAN :
        /\ req = NoCall
        /\ req' = [op |-> "WaitForCommitChecks",
                   timeoutMinutes |-> timeoutMinutes, ref |-> ref]
        /\ IF ref = <<>> /\ ~commitOk
           THEN /\ waitCall' = [pc |-> "done"]
                /\ ret' = ChecksReturn(NilChecksResult,
                                       "failed to get current commit", NoStatus)
           ELSE /\ waitCall' =
                       [pc |-> "check_ctx",
                        pollDuration |-> pollIntervalSeconds,
                        maxDuration |->
                            60 * (IF timeoutMinutes <= 0
                                  THEN defaultTimeoutMinutes
                                  ELSE timeoutMinutes),
                        startTime |-> world.clock]
                /\ ret' = ret
        /\ UNCHANGED <<logs, archive, regexCache, zipCall, world,
                       goroutines, regexCacheMutex>>

\* select { case <-ctx.Done(): return cancelled; default: }
ChecksCheckCtx ==
    /\ req.op = "WaitForCommitChecks"
    /\ waitCall.pc = "check_ctx"
    /\ IF world.ctxDone
       THEN /\ waitCall' = [waitCall EXCEPT !.pc = "done"]
            /\ ret' = ChecksReturn(
                   [NoChecksResult EXCEPT
                       !.OverallConclusion = "cancelled",
                       !.DurationSeconds = world.clock - waitCall.startTime],
                   "context", NoStatus)
       ELSE /\ waitCall' = [waitCall EXCEPT !.pc = "check_time"]
            /\ ret' = ret
    /\ UNCHANGED <<logs, archive, regexCache, req, zipCall, world,
                   goroutines, regexCacheMutex>>

\* elapsed := time.Since(startTime); if elapsed > maxDuration { one more
\* listing, then the timed_out result }
ChecksCheckTime ==
    \E ok \in BOOLEAN :
        LET elapsed == world.clock - waitCall.startTime
            status == GetCheckRunsForRef(world.checks)
        IN /\ req.op = "WaitForCommitChecks"
           /\ waitCall.pc = "check_time"
           /\ IF elapsed > waitCall.maxDuration
              THEN /\ waitCall' = [waitCall EXCEPT !.pc = "done"]
                   /\ IF ok
                      THEN /\ ret' = ChecksReturn(
                                  [NoChecksResult EXCEPT
                                      !.OverallConclusion = "timed_out",
                                      !.ChecksTotal = status.TotalCount,
                                      !.ChecksByConclusion = status.ByConclusion,
                                      !.DurationSeconds = elapsed,
                                      !.TimeoutReached = TRUE],
                                  "nil", ListedStatus(status))
                           /\ world' = [world EXCEPT !.served = @ + 1]
                      ELSE /\ ret' = ChecksReturn(
                                  [NoChecksResult EXCEPT
                                      !.OverallConclusion = "timed_out",
                                      !.DurationSeconds = elapsed,
                                      !.TimeoutReached = TRUE],
                                  "checks did not complete within", NoStatus)
                           /\ world' = world
              ELSE /\ ok
                   /\ waitCall' = [waitCall EXCEPT !.pc = "fetch"]
                   /\ ret' = ret
                   /\ world' = world
           /\ UNCHANGED <<logs, archive, regexCache, req, zipCall,
                          goroutines, regexCacheMutex>>

\* status, err := c.GetCheckRunsForRef(...), the allComplete loop and the
\* return when all are complete
ChecksFetch ==
    \E ok \in BOOLEAN :
        LET status == GetCheckRunsForRef(world.checks)
        IN /\ req.op = "WaitForCommitChecks"
           /\ waitCall.pc = "fetch"
           /\ IF ~ok
              THEN /\ world' = world
                   /\ waitCall' = [waitCall EXCEPT !.pc = "done"]
                   /\ ret' = ChecksReturn(NilChecksResult,
                                          "failed to get check runs", NoStatus)
              ELSE /\ world' = [world EXCEPT !.served = @ + 1]
                   /\ IF AllComplete(status.CheckRuns)
                      THEN /\ waitCall' = [waitCall EXCEPT !.pc = "done"]
                           /\ ret' = ChecksReturn(
                                  [NoChecksResult EXCEPT
                                      !.OverallConclusion = status.State,
                                      !.ChecksTotal = status.TotalCount,
                                      !.ChecksByConclusion = status.ByConclusion,
                                      !.DurationSeconds =
                                          world'.clock - waitCall.startTime,
                                      !.TimeoutReached = FALSE],
                                  "nil", ListedStatus(status))
                      ELSE /\ waitCall' = [waitCall EXCEPT !.pc = "sleep"]
                           /\ ret' = ret
           /\ UNCHANGED <<logs, archive, regexCache, req, zipCall,
                          goroutines, regexCacheMutex>>

\* timer := time.NewTimer(pollDuration); select on ctx.Done() and timer.C
ChecksSleep ==
    /\ req.op = "WaitForCommitChecks"
    /\ waitCall.pc = "sleep"
    /\ \/ /\ world.ctxDone
          /\ waitCall' = [waitCall EXCEPT !.pc = "done"]
          /\ ret' = ChecksReturn(
                 [NoChecksResult EXCEPT
                     !.OverallConclusion = "cancelled",
                     !.DurationSeconds = world.clock - waitCall.startTime],
                 "context", NoStatus)
          /\ world' = world
       \/ /\ waitCall' = [waitCall EXCEPT !.pc = "check_ctx"]
          /\ ret' = ret
          /\ world' = [world EXCEPT !.clock = @ + waitCall.pollDuration]
    /\ UNCHANGED <<logs, archive, regexCache, req, zipCall,
                   goroutines, regexCacheMutex>>

\* GitHub: a check run of the ref changes state while the caller waits
CheckAdvance ==
    \E i \in 1..Len(world.checks) : \E cr \in CheckMoves(world.checks[i]) :
        /\ waitCall.pc \notin {"idle", "done"}
        /\ world' = [world EXCEPT !.checks[i] = cr]
        /\ UNCHANGED <<logs, archive, regexCache, req, ret, zipCall, waitCall,
                       goroutines, regexCacheMutex>>

\* GitHub: a further check run is created for the ref
CheckCreated ==
    /\ waitCall.pc \notin {"idle", "done"}
    /\ Len(world.checks) < MaxCheckRuns
    /\ world' = [world EXCEPT !.checks =
                     Append(@, [Status |-> "in_progress", Conclusion |-> ""])]
    /\ UNCHANGED <<logs, archive, regexCache, req, ret, zipCall, waitCall,
                   goroutines, regexCacheMutex>>

WaitForCommitChecks ==
    ChecksStart \/ ChecksCheckCtx \/ ChecksCheckTime \/ ChecksFetch \/ ChecksSleep

NextChecks == WaitForCommitChecks \/ CheckAdvance \/ CheckCreated \/ CtxCancel

SpecChecks == InitChecks /\ [][NextChecks]_vars

\* the call returned a result with TimeoutReached = false and a nil error
ChecksCompleted ==
    /\ req.op = "WaitForCommitChecks"
    /\ waitCall.pc = "done"
    /\ ret.err = "nil"
    /\ ~ret.result.TimeoutReached

\* C30 as stated: the call returns TimeoutReached = false with a nil error
\* only after a poll in which every check run of the ref was completed, and
\* the OverallConclusion is the state computed from those runs and is never
\* "pending", also for a ref without check runs
C30_NeverPending ==
    ChecksCompleted =>
        /\ AllComplete(ret.status.CheckRuns)
        /\ ret.result.OverallConclusion = determineOverallState(ret.status.CheckRuns)
        /\ ret.result.OverallConclusion # "pending"

\* C30: the call returns TimeoutReached = false with a nil error only after
\* a poll in which every check run of the ref was completed; the
\* OverallConclusion is the state computed from those runs, which is
\* "pending" exactly when the poll listed no check runs at all
C30_PendingOnlyWithoutCheckRuns ==
    ChecksCompleted =>
        /\ world.served >= 1
        /\ ret.status.listed
        /\ AllComplete(ret.status.CheckRuns)
        /\ ret.result.ChecksTotal = Len(ret.status.CheckRuns)
        /\ ret.result.OverallConclusion = determineOverallState(ret.status.CheckRuns)
        /\ ret.result.OverallConclusion \in
               {"pending", "failure", "success", "neutral"}
        /\ ret.result.OverallConclusion = "pending" <=> ret.status.CheckRuns = <<>>

\* the call returned after more than one poll, with two completed check runs
\* of which one failed
C30_Witness ==
    /\ ChecksCompleted
    /\ world.served >= 2
    /\ Len(ret.status.CheckRuns) = 2
    /\ ret.result.OverallConclusion = "failure"

=============================================================================
